---- MODULE Spec2Model ----
(***************************************************************************)
(* Header location pipeline of SimpleSpecs2.                               *)
(*                                                                         *)
(* A document is a stream of text lines.  The text of a line is abstracted *)
(* to the section number it starts with (a sequence of naturals, <<>> when *)
(* the line bears no number) and the identity of its title words (0 for    *)
(* running prose).  Every matcher of the code (number regexes, fuzzy       *)
(* token_set_ratio, normalised-text equality) is computed on that pair.    *)
(***************************************************************************)
EXTENDS Integers, Sequences, FiniteSets, TLC

\* ------------------------------------------------------------------ bounds
MaxLines == 3
MaxHeaders == 3
TocPageLen == 2

\* ------------------------------------------------------- program constants
HEADERS_STRICT_FUZZY_THRESH == 75
HEADERS_STRICT_TITLE_ONLY_THRESH == 72
HEADERS_STRICT_BAND_LINES == 3
HEADERS_STRICT_TOC_MIN_SECTION_TOKENS == 6
HEADERS_STRICT_AFTER_ANCHOR_ONLY == TRUE
HEADERS_STRICT_LAST_OCCURRENCE_FALLBACK == TRUE
HEADERS_FINAL_MONOTONIC_GUARD == TRUE
HEADERS_FUZZY_THRESHOLD == 80
HEADERS_WINDOW_PAD_LINES == 40
HEADERS_BAND_LINES == 5
HEADERS_L1_REQUIRE_NUMERIC == TRUE
HEADERS_L1_LOOKAHEAD_CHILD_HINT == 30
HEADERS_MONOTONIC_STRICT == TRUE
HEADERS_REANCHOR_PASS == TRUE
HEADERS_STRICT_INVARIANTS == TRUE
HEADERS_TITLE_ONLY_REANCHOR == TRUE
HEADERS_RESCAN_PASSES == 2
HEADERS_AFTER_ANCHOR_ONLY == TRUE
HEADERS_FUZZY_TITLE_ONLY == 78
HEADERS_FUZZY_NUMTITLE == 82
HEADERS_RUNNER_MIN_PAGES == 2
HEADERS_TOC_MIN_SECTION_TOKENS == 6
HEADERS_TOC_MIN_DOT_LEADERS == 4

\* ------------------------------------------------------------- text domain
NoNumber == <<>>
Prose == [num |-> NoNumber, ttl |-> 0]
NoText == [num |-> NoNumber, ttl |-> 99]
\* Title of a line that consists of its numbering alone ("2", "2.").
NoTitle == 98

\* Texts a body line can carry: "1 A", "2 B", "1.1 D", "A", running prose.
LineTexts ==
  { [num |-> <<1>>, ttl |-> 1], [num |-> <<2>>, ttl |-> 2],
    [num |-> <<1, 1>>, ttl |-> 3], [num |-> NoNumber, ttl |-> 1], Prose }

\* Outline entries the oracle can emit: "1 A", "3 C", "1.1 D", unnumbered "A".
OracleHeaders ==
  { [num |-> <<1>>, ttl |-> 1, level |-> 1], [num |-> <<3>>, ttl |-> 4, level |-> 1],
    [num |-> <<1, 1>>, ttl |-> 3, level |-> 2], [num |-> NoNumber, ttl |-> 1, level |-> 1] }

SeqsUpTo(S, n) == UNION { [1..k -> S] : k \in 0..n }

Max(a, b) == IF a >= b THEN a ELSE b
Min(a, b) == IF a <= b THEN a ELSE b

\* Python tuple comparison: the first differing element decides, a proper
\* prefix is smaller.
RECURSIVE TupleLess(_, _)
TupleLess(a, b) ==
  IF a = <<>> THEN b # <<>>
  ELSE IF b = <<>> THEN FALSE
  ELSE IF Head(a) # Head(b) THEN Head(a) < Head(b)
  ELSE TupleLess(Tail(a), Tail(b))

\* list.sort(key=...): stable sort by a strict weak order on the keys.
SortedBy(s, Less(_, _)) ==
  LET n == Len(s)
      Rank(i) == Cardinality({ j \in 1..n : Less(s[j], s[i]) \/ (~Less(s[i], s[j]) /\ j < i) })
  IN  [k \in 1..n |-> s[CHOOSE i \in 1..n : Rank(i) = k - 1]]

GidLess(a, b) == a.gid < b.gid

EmptyMap == [ x \in {} |-> 0 ]

IsPrefix(p, s) == Len(p) <= Len(s) /\ SubSeq(s, 1, Len(p)) = p

\* rapidfuzz token_set_ratio on the token sets of a line and of a wanted
\* heading: 100 when one token set contains the other, a middling value when
\* they only share the title, a low value when they only share the number,
\* lower still when they share nothing.
ScoreSameTitle == 88
ScoreSameNumber == 50
ScoreDisjoint == 20
Tokens(num, ttl) ==
  (IF num = NoNumber THEN {} ELSE {<<"n", num>>}) \cup (IF ttl = NoTitle THEN {} ELSE {<<"t", <<ttl>>>>})
token_set_ratio(line, num, ttl) ==
  LET a == Tokens(line.num, line.ttl)
      b == Tokens(num, ttl)
  IN  IF a \cap b = {} THEN ScoreDisjoint
      ELSE IF a \subseteq b \/ b \subseteq a THEN 100
      ELSE IF <<"t", <<ttl>>>> \in a THEN ScoreSameTitle
      ELSE ScoreSameNumber

\* ------------------------------------------------------------------- state
VARIABLES
  pc,               \* position of the request in extract_headers_and_chunks / the API handler
  document,         \* the uploaded document (extracted line texts, TOC page, running text)
  settings,         \* Settings: headers_mode, headers_llm_strict, header_locate_use_embeddings
  session,          \* TRUE when a DB session and a document id were passed
  lines,            \* output of collect_line_metrics
  llm_headers,      \* outline returned by the oracle
  located_headers,  \* located headers (the result's "headers" once returned)
  sections,         \* the result's "sections"
  mode_used,
  messages,
  trace,            \* events recorded by the HeaderTracer
  artifact,         \* HEADER_TREE artifact row of the document, NoArtifact when absent
  outcome,          \* what the caller of the pipeline observed: "pending", "returned", "raised"
  spans,            \* section spans built by the API from the returned headers
  llm_response,     \* what the oracle call of this run produced, "none" before it
  error,            \* class (and code) of the exception the caller observed, "none" if none
  rows,             \* rows of the document_artifacts table, in insertion order
  tracer,           \* TRUE when a HeaderTracer is attached, FALSE for tracer = None
  raw_text,         \* text handed to normalize, as a sequence of characters
  cleaned,          \* the text after the calls of normalize made so far
  llm_service,      \* the LLMService instance, its clock and the generate call in progress
  cache_dir,        \* headers_llm_cache_dir: the file of each doc_hash, NoFile when absent
  llm_result,       \* what the last call of get_headers_llm_full gave its caller
  calls,            \* number of chat calls made so far
  first_headers,    \* the headers that the first completed call returned, per doc_hash
  repair,           \* anchors, windows and change flag of the invariant repair loop in progress
  embeddings_cache, \* embeddings cache directory and the EmbeddingsClient calls at work on it
  simple_headers_state \* SimpleHeadersState: the class-level OrderedDict and the use history of its entries

vars == << pc, document, settings, session, lines, llm_headers, located_headers,
           sections, mode_used, messages, trace, artifact, outcome, spans, llm_response, error, rows, tracer,
           raw_text, cleaned, llm_service, cache_dir, llm_result, calls, first_headers, repair, embeddings_cache, simple_headers_state >>

NoArtifact == [mode |-> "none"]

\* LLMService.__init__: no failure counted, circuit closed (-1 stands for
\* None), empty response cache; the clock starts at 0 and no call was made.
\* all_retryable, exhausted_at and toggle record the history of the calls:
\* whether every attempt of the call so far failed with a retryable error,
\* when the last call that exhausted its attempts that way raised (-1: none
\* or a later call got past the cool-down), and the parity of the calls made.
NewLLMService ==
  [ failure_count |-> 0, circuit_open_until |-> -1, now |-> 0, cache |-> {},
    phase |-> "idle", key |-> "none", attempt |-> 0, all_retryable |-> FALSE,
    outcome |-> "none", exhausted_at |-> -1, toggle |-> FALSE ]

\* The file cache of get_headers_llm_full: one file per doc_hash.
DocHashes == {"hash-a", "hash-b"}
NoFile == [exists |-> FALSE]
NoFiles == [d \in DocHashes |-> NoFile]
NoResult == [form |-> "none"]
NoFirst == [d \in DocHashes |-> NoResult]

\* No repair loop is running.
NoRepair == [changed |-> FALSE]

\* SimpleHeadersState._store at import: an empty OrderedDict (kept as the
\* list of its entries, oldest first); `recency` lists the stored documents
\* by their last use, `result` and `evicted` are what the last call returned
\* and dropped, `spared` is the document the last successful get found at
\* the front and moved away from it (0 when there is none in the store).
NoSimpleHeaders ==
  [store |-> <<>>, recency |-> <<>>, result |-> "none", evicted |-> 0, spared |-> 0]

\* No embeddings client is at work.
NoEmbeddings == [files |-> <<>>, clients |-> <<>>]

\* ------------------------------------------------------------------ inputs
Documents ==
  { [texts |-> t, toc |-> c, running |-> r] :
      t \in SeqsUpTo(LineTexts, MaxLines), c \in {0, TocPageLen}, r \in LineTexts \cup {NoText} }

\* A TOC page opens with its "Contents" heading (a prose line) and lies before
\* the body; a running header/footer text occurs at least twice.
ValidDocument(d) ==
  /\ d.toc > 0 => (Len(d.texts) >= d.toc /\ d.texts[1] = Prose)
  /\ d.running # NoText => Cardinality({ i \in DOMAIN d.texts : d.texts[i] = d.running }) > 1

SettingsSet ==
  [ headers_mode : {"llm_full", "llm_simple"},
    headers_llm_strict : BOOLEAN,
    header_locate_use_embeddings : BOOLEAN ]

Outlines ==
  { h \in SeqsUpTo(OracleHeaders, MaxHeaders) :
      \A i, j \in DOMAIN h : i # j => h[i] # h[j] }

Init ==
  /\ pc = "collect"
  /\ document \in { d \in Documents : ValidDocument(d) }
  /\ settings \in { s \in SettingsSet :
                      s.headers_mode = "llm_simple" =>
                        (~s.headers_llm_strict /\ ~s.header_locate_use_embeddings) }
  /\ session \in BOOLEAN
  /\ lines = <<>>
  /\ llm_headers = <<>>
  /\ located_headers = <<>>
  /\ sections = <<>>
  /\ mode_used = "llm_full"
  /\ messages = <<>>
  /\ trace = {}
  /\ artifact = NoArtifact
  /\ outcome = "pending"
  /\ spans = <<>>
  /\ llm_response = "none"
  /\ error = "none"
  /\ rows = <<>>
  /\ tracer = TRUE
  /\ raw_text = <<>>
  /\ cleaned = <<>>
  /\ llm_service = NewLLMService
  /\ simple_headers_state = NoSimpleHeaders
  /\ embeddings_cache = NoEmbeddings
  /\ repair = NoRepair
  /\ first_headers = NoFirst
  /\ calls = 0
  /\ llm_result = NoResult
  /\ cache_dir = NoFiles

\* ------------------------------------------------------ collect_line_metrics
\* Lines keep the extractor's global index (0-based, in reading order); the
\* lines of the TOC page are flagged is_toc, every line carrying a running
\* header/footer text is flagged is_running.
collect_line_metrics(d) ==
  [ i \in 1..Len(d.texts) |->
      [ gid |-> i - 1,
        page |-> IF i <= d.toc THEN 1 ELSE 2,
        num |-> d.texts[i].num,
        ttl |-> d.texts[i].ttl,
        is_toc |-> i <= d.toc,
        is_running |-> d.texts[i] = d.running ] ]

excluded_pages(d) == IF d.toc > 0 THEN {1} ELSE {}

CollectLines ==
  /\ pc = "collect"
  /\ lines' = collect_line_metrics(document)
  /\ pc' = "cache"
  /\ UNCHANGED << document, settings, session, llm_headers, located_headers, sections,
                  mode_used, messages, trace, artifact, outcome, spans, llm_response, error, rows, tracer,
                  raw_text, cleaned, llm_service, cache_dir, llm_result, calls, first_headers, repair, embeddings_cache, simple_headers_state >>

\* --------------------------------------------------- align_headers_llm_strict
StrictBlocked(l) == l.is_toc \/ l.is_running

\* Pages whose lines look like TOC entries: at least six section-like lines
\* and few body-like (long prose) lines.
detect_toc_pages_strict(L) ==
  { p \in { L[i].page : i \in DOMAIN L } :
      LET section_like == Cardinality({ i \in DOMAIN L : L[i].page = p /\ L[i].num # NoNumber })
          body_like == Cardinality({ i \in DOMAIN L : L[i].page = p /\ L[i].num = NoNumber /\ L[i].ttl = 0 })
      IN  /\ section_like >= HEADERS_STRICT_TOC_MIN_SECTION_TOKENS
          /\ body_like <= Max(1, section_like \div 2) }

StrictUsable(L) ==
  { i \in DOMAIN L : ~StrictBlocked(L[i]) /\ L[i].page \notin detect_toc_pages_strict(L) }

\* in_band: position of the line among the unblocked lines of its page.
StrictInBand(L, i) ==
  LET same == { j \in DOMAIN L : ~StrictBlocked(L[j]) /\ L[j].page = L[i].page }
      pos == Cardinality({ j \in same : L[j].gid < L[i].gid })
      total == Cardinality(same)
  IN  /\ i \in same
      /\ HEADERS_STRICT_BAND_LINES > 0
      /\ (pos < HEADERS_STRICT_BAND_LINES \/ pos >= Max(0, total - HEADERS_STRICT_BAND_LINES))

\* compile_number_regex_fuzzy: the line bears exactly this number.
StrictNumberMatch(l, num) == num # NoNumber /\ l.num = num

StrictAdjusted(L, i, h) ==
  token_set_ratio(L[i], h.num, h.ttl) - (IF StrictInBand(L, i) THEN 10 ELSE 0)

\* Candidate lists of one header: lines bearing its number whose adjusted
\* score reaches the threshold, and those with a lower positive score.
StrictCandidates(L, h, usable) ==
  { i \in usable : StrictNumberMatch(L[i], h.num)
                   /\ StrictAdjusted(L, i, h) >= HEADERS_STRICT_FUZZY_THRESH }

StrictWeakCandidates(L, h, usable) ==
  { i \in usable : /\ StrictNumberMatch(L[i], h.num)
                   /\ StrictAdjusted(L, i, h) < HEADERS_STRICT_FUZZY_THRESH
                   /\ StrictAdjusted(L, i, h) > 0 }

\* Lines the title-only and the sequential fallback may take.
StrictLater(L, usable, prev_idx) ==
  { i \in usable : HEADERS_STRICT_AFTER_ANCHOR_ONLY => L[i].gid > prev_idx }

\* The cascade of strategies of the per-header loop.
StrictChoose(L, h, prev_idx, candidates, weak_candidates, later) ==
  LET After(S) == IF HEADERS_STRICT_AFTER_ANCHOR_ONLY /\ prev_idx >= 0
                  THEN { i \in S : L[i].gid > prev_idx } ELSE S
      Best(S) == CHOOSE i \in S : \A j \in S :
                   \/ StrictAdjusted(L, j, h) < StrictAdjusted(L, i, h)
                   \/ (StrictAdjusted(L, j, h) = StrictAdjusted(L, i, h) /\ L[j].gid >= L[i].gid)
      Last(S) == CHOOSE i \in S : \A j \in S : L[j].gid <= L[i].gid
      First(S) == CHOOSE i \in S : \A j \in S : i <= j
      titled == { i \in later : token_set_ratio(L[i], NoNumber, h.ttl) >= HEADERS_STRICT_TITLE_ONLY_THRESH }
  IN  IF After(candidates) # {}
        THEN [idx |-> Best(After(candidates)), strategy |-> "num+title"]
      ELSE IF HEADERS_STRICT_LAST_OCCURRENCE_FALLBACK /\ candidates # {}
        THEN [idx |-> Last(candidates), strategy |-> "last_occurrence"]
      ELSE IF After(weak_candidates) # {}
        THEN [idx |-> Best(After(weak_candidates)), strategy |-> "num+title-weak"]
      ELSE IF HEADERS_STRICT_LAST_OCCURRENCE_FALLBACK /\ weak_candidates # {}
        THEN [idx |-> Last(weak_candidates), strategy |-> "num+title-weak-last"]
      ELSE IF titled # {}
        THEN [idx |-> First(titled), strategy |-> "title_only"]
      ELSE IF later # {}
        THEN [idx |-> First(later), strategy |-> "sequential_fallback"]
      ELSE [idx |-> 0, strategy |-> "unresolved"]

\* The body of the per-header loop: which line the header is anchored on, by
\* which strategy, given the previous anchor prev_idx.
StrictPickAmong(L, h, prev_idx, usable) ==
  StrictChoose(L, h, prev_idx, StrictCandidates(L, h, usable),
               StrictWeakCandidates(L, h, usable), StrictLater(L, usable, prev_idx))

StrictPick(L, h, prev_idx) == StrictPickAmong(L, h, prev_idx, StrictUsable(L))

\* The loop over the oracle's headers, threading prev_idx; StrictCommit is
\* the end of one iteration, with the pick p of header k.
RECURSIVE StrictResolve(_, _, _, _, _)
RECURSIVE StrictCommit(_, _, _, _, _, _)
StrictCommit(L, H, k, prev_idx, resolved, p) ==
  IF p.strategy = "unresolved"
  THEN StrictResolve(L, H, k + 1, prev_idx, resolved)
  ELSE StrictResolve(L, H, k + 1, L[p.idx].gid,
         Append(resolved, [ num |-> H[k].num, ttl |-> H[k].ttl, level |-> H[k].level,
                            gid |-> L[p.idx].gid, strategy |-> p.strategy ]))

StrictResolve(L, H, k, prev_idx, resolved) ==
  IF k > Len(H) THEN resolved
  ELSE StrictCommit(L, H, k, prev_idx, resolved, StrictPick(L, H[k], prev_idx))

number_parent(num) == IF Len(num) >= 2 THEN SubSeq(num, 1, Len(num) - 1) ELSE NoNumber

\* position_map: number -> anchor of the last resolved item bearing it.
StrictPositionMap(R) ==
  [ n \in { R[i].num : i \in { j \in DOMAIN R : R[j].num # NoNumber } } |->
      R[CHOOSE i \in DOMAIN R : R[i].num = n /\ \A j \in DOMAIN R : R[j].num = n => j <= i].gid ]

\* Final monotonic guard: a dotted number anchored before its parent is
\* moved to the last line bearing its number after the parent, else to the
\* last line bearing its number at all.
RECURSIVE StrictMonotonicGuard(_, _, _, _)
RECURSIVE StrictRepick(_, _, _, _, _)
StrictRepick(L, R, k, position_map, pool) ==
  LET repick == CHOOSE i \in pool : \A j \in pool : L[j].gid <= L[i].gid
  IN  IF pool # {} /\ L[repick].gid # R[k].gid
      THEN StrictMonotonicGuard(L, [R EXCEPT ![k].gid = L[repick].gid], k + 1,
             [position_map EXCEPT ![R[k].num] = L[repick].gid])
      ELSE StrictMonotonicGuard(L, R, k + 1, position_map)

\* Lines the guard may move item k to.
StrictRepickPool(L, item, parent_idx, all_candidates) ==
  LET after_parent == { i \in all_candidates : L[i].gid > parent_idx }
  IN  IF after_parent # {} THEN after_parent
      ELSE IF HEADERS_STRICT_LAST_OCCURRENCE_FALLBACK THEN all_candidates
      ELSE {}

StrictMonotonicGuard(L, R, k, position_map) ==
  IF k > Len(R) THEN R
  ELSE IF \/ Len(R[k].num) < 2
          \/ number_parent(R[k].num) \notin DOMAIN position_map
  THEN StrictMonotonicGuard(L, R, k + 1, position_map)
  ELSE IF position_map[number_parent(R[k].num)] <= R[k].gid
  THEN StrictMonotonicGuard(L, R, k + 1, position_map)
  ELSE StrictRepick(L, R, k, position_map,
         StrictRepickPool(L, R[k], position_map[number_parent(R[k].num)],
                          { i \in StrictUsable(L) : StrictNumberMatch(L[i], R[k].num) }))

\* The part of align_headers_llm_strict after the per-header loop and sort.
StrictGuarded(L, resolved) ==
  IF resolved = <<>> THEN <<>>
  ELSE IF HEADERS_FINAL_MONOTONIC_GUARD
    THEN SortedBy(StrictMonotonicGuard(L, resolved, 1, StrictPositionMap(resolved)), GidLess)
  ELSE resolved

align_headers_llm_strict(H, L) ==
  StrictGuarded(L, SortedBy(StrictResolve(L, H, 1, -1, <<>>), GidLess))

\* ------------------------------------------------ single_chunks_from_headers
\* Position (1-based) of the first line carrying the global index, 0 if none.
IndexOfGid(L, g) ==
  IF \E i \in DOMAIN L : L[i].gid = g
  THEN CHOOSE i \in DOMAIN L : L[i].gid = g /\ \A j \in DOMAIN L : L[j].gid = g => i <= j
  ELSE 0

\* One chunk per header, in the order of the list given: from the header's
\* line to the line before the next header of the list (inclusive bounds).
RECURSIVE single_chunks_from_headers(_, _, _)
single_chunks_from_headers(Hs, L, k) ==
  IF k > Len(Hs) THEN <<>>
  ELSE LET current_idx == IndexOfGid(L, Hs[k].gid)
           found_next == IndexOfGid(L, Hs[k + 1].gid)
           next_idx == IF found_next = 0 THEN Len(L) + 1 ELSE found_next
           end_index == IF k < Len(Hs) THEN Max(current_idx, next_idx - 1) ELSE Len(L)
       IN  IF current_idx = 0 \/ end_index < current_idx
           THEN single_chunks_from_headers(Hs, L, k + 1)
           ELSE << [ num |-> Hs[k].num, ttl |-> Hs[k].ttl, level |-> Hs[k].level,
                     start_global_idx |-> L[current_idx].gid,
                     end_global_idx |-> L[end_index].gid ] >>
                \o single_chunks_from_headers(Hs, L, k + 1)

\* -------------------------------------------------- _enforce_header_sequence
\* _order_key: (source_idx when known, number key, level, global_idx); a
\* header without a number has number key (-1).
order_key(h) ==
  LET order == IF h.num # NoNumber THEN h.num ELSE << -1 >>
  IN  IF h.source_idx >= 0
      THEN << h.source_idx >> \o order \o << h.level, h.gid >>
      ELSE order \o << h.level, h.gid >>

OrderKeyLess(a, b) == TupleLess(order_key(a), order_key(b))

SortForOutput(Hs) == SortedBy(SortedBy(Hs, GidLess), OrderKeyLess)

\* _identify_missing_headers: numbering gaps between consecutive headers that
\* share a prefix, each with the index of the header it follows.
RECURSIVE identify_missing_headers(_, _, _, _)
identify_missing_headers(Hs, k, expected_by_key, last_index_by_key) ==
  IF k > Len(Hs) THEN <<>>
  ELSE IF Hs[k].num = NoNumber
  THEN identify_missing_headers(Hs, k + 1, expected_by_key, last_index_by_key)
  ELSE LET num == Hs[k].num
           key == SubSeq(num, 1, Len(num) - 1)
           value == num[Len(num)]
           missing ==
             IF key \in DOMAIN expected_by_key /\ value > expected_by_key[key]
             THEN [ v \in 1..(value - expected_by_key[key]) |->
                      [ components |-> Append(key, expected_by_key[key] + v - 1),
                        after_index |-> last_index_by_key[key],
                        level |-> Hs[last_index_by_key[key]].level ] ]
             ELSE <<>>
       IN  missing \o identify_missing_headers(Hs, k + 1,
                        (key :> (value + 1)) @@ expected_by_key,
                        (key :> k) @@ last_index_by_key)

Gaps(Hs) == identify_missing_headers(Hs, 1, EmptyMap, EmptyMap)

\* _build_number_pattern, matched at the start of the line: the line starts
\* with the number itself or with one of its dotted descendants.
GapPatternMatch(l, components) == l.num # NoNumber /\ IsPrefix(components, l.num)

\* _find_header_in_chunk: first line of the chunk (flags are not consulted)
\* whose text starts with the missing number; 0 when there is none.
find_header_in_chunk(chunk, L, components) ==
  LET found_start == IndexOfGid(L, chunk.start_global_idx)
      start_idx == IF found_start = 0 THEN 1 ELSE found_start
      found_end == IndexOfGid(L, chunk.end_global_idx)
      end_idx == IF found_end = 0 THEN start_idx ELSE found_end
      hits == { i \in start_idx..end_idx : GapPatternMatch(L[i], components) }
  IN  IF components = <<>> \/ hits = {} THEN 0
      ELSE CHOOSE i \in hits : \A j \in hits : i <= j

\* The gaps of one loop iteration that can be filled: the chunk exists, a
\* line matches, and no header is anchored on that line yet.
Fillable(Hs, Ss, L) ==
  LET gaps == Gaps(Hs)
  IN  { g \in DOMAIN gaps :
          /\ gaps[g].after_index <= Len(Ss)
          /\ find_header_in_chunk(Ss[gaps[g].after_index], L, gaps[g].components) # 0
          /\ \A e \in DOMAIN Hs :
               Hs[e].gid # L[find_header_in_chunk(Ss[gaps[g].after_index], L, gaps[g].components)].gid }

\* ------------------------------------------------------ headers_sequential.py
\* The sequential aligner works on 0-based list positions; LineAt reads one.
LineAt(L, idx) == L[idx + 1]

\* compile_number_regex: the line starts with the number, or with a dotted
\* descendant of it (the number may be followed by ".").
SeqNumberMatch(l, num) == l.num # NoNumber /\ IsPrefix(num, l.num)

is_number_descendant(candidate, parent) ==
  parent # NoNumber /\ Len(candidate) > Len(parent) /\ IsPrefix(parent, candidate)

\* make_header_items: numbered headers only, sorted by (number key, level).
ItemLess(a, b) == TupleLess(a.num, b.num) \/ (a.num = b.num /\ a.level < b.level)
make_header_items(H) ==
  SortedBy(SelectSeq([ i \in DOMAIN H |-> [num |-> H[i].num, ttl |-> H[i].ttl, level |-> H[i].level] ],
                     LAMBDA h : h.num # NoNumber),
           ItemLess)

\* detect_toc_pages: pages with six or more dotted-leader lines.
detect_toc_pages(L) ==
  { p \in { L[i].page : i \in DOMAIN L } :
      Cardinality({ i \in DOMAIN L : L[i].page = p /\ L[i].is_toc /\ ~L[i].is_running }) >= 6 }

\* detect_running_header_footer: texts found in the top/bottom band of at
\* least max(2, 60% of the pages) pages, lines flagged is_running not counted.
detect_running_header_footer(L) ==
  LET pages == { L[i].page : i \in DOMAIN L }
      InBandOf(i) ==
        LET same == { j \in DOMAIN L : L[j].page = L[i].page }
            pos == Cardinality({ j \in same : L[j].gid < L[i].gid })
        IN  pos < HEADERS_BAND_LINES \/ pos >= Cardinality(same) - HEADERS_BAND_LINES
      Hits(t) == { p \in pages : \E i \in DOMAIN L :
                     /\ L[i].page = p /\ InBandOf(i) /\ ~L[i].is_running
                     /\ L[i].num = t.num /\ L[i].ttl = t.ttl }
      threshold == Max(2, (6 * Cardinality(pages)) \div 10)
  IN  { t \in LineTexts : Cardinality(Hits(t)) >= threshold }

\* is_ineligible_runner_or_toc
SeqIneligible(l, toc_pages, runners) ==
  l.page \in toc_pages \/ [num |-> l.num, ttl |-> l.ttl] \in runners

in_page_band(L, l, band) ==
  LET same == { j \in DOMAIN L : L[j].page = l.page }
      pos == Cardinality({ j \in same : L[j].gid < l.gid })
  IN  /\ \E j \in same : L[j].gid = l.gid
      /\ (pos < band \/ pos >= Max(0, Cardinality(same) - band))

cand_score(l, item, has_number, in_band) ==
  token_set_ratio(l, item.num, item.ttl) + (IF has_number THEN 20 ELSE 0) - (IF in_band THEN 15 ELSE 0)

\* has_child_hint: a line starting with a child number of the item; the scan
\* starts after position len(tokens) - 1 whatever the candidate position is.
has_child_hint(L, num, toc_pages, runners) ==
  \E offset \in Len(num)..(Min(Len(L), Len(num) + HEADERS_L1_LOOKAHEAD_CHILD_HINT) - 1) :
     /\ ~SeqIneligible(LineAt(L, offset), toc_pages, runners)
     /\ is_number_descendant(LineAt(L, offset).num, num)

score_l1_candidate(L, idx, item, toc_pages, runners) ==
  IF SeqIneligible(LineAt(L, idx), toc_pages, runners) THEN -999
  ELSE token_set_ratio(LineAt(L, idx), item.num, item.ttl)
       + (IF SeqNumberMatch(LineAt(L, idx), item.num) THEN 25 ELSE 0)
       - (IF in_page_band(L, LineAt(L, idx), HEADERS_BAND_LINES) THEN 20 ELSE 0)
       + (IF has_child_hint(L, item.num, toc_pages, runners) THEN 5 ELSE 0)

\* First position of S with the highest score.
BestFirst(S, score) ==
  CHOOSE i \in S : \A j \in S : score[j] < score[i] \/ (score[j] = score[i] /\ i <= j)

\* build_top_level_windows, anchoring loop: position chosen for each level-1
\* item after the cursor, numeric matches first, any eligible line otherwise.
RECURSIVE TopAnchors(_, _, _, _, _, _, _)
TopAnchors(L, tops, k, cursor_idx, anchors, toc_pages, runners) ==
  IF k > Len(tops) THEN anchors
  ELSE LET item == tops[k]
           Score(idx) == score_l1_candidate(L, idx, item, toc_pages, runners)
           scan == { idx \in (cursor_idx + 1)..(Len(L) - 1) : Score(idx) > -999 }
           numeric == { idx \in scan : SeqNumberMatch(LineAt(L, idx), item.num) }
           pool == IF HEADERS_L1_REQUIRE_NUMERIC /\ numeric # {} THEN numeric ELSE scan
       IN  IF pool = {} THEN TopAnchors(L, tops, k + 1, cursor_idx, anchors, toc_pages, runners)
           ELSE TopAnchors(L, tops, k + 1, BestFirst(pool, [idx \in pool |-> Score(idx)]),
                           (item.num :> BestFirst(pool, [idx \in pool |-> Score(idx)])) @@ anchors, toc_pages, runners)

\* Windows of the anchored level-1 items: from the anchor to the anchor of the
\* next number (list positions, end exclusive).
build_top_level_windows(L, tops, toc_pages, runners) ==
  LET anchors == TopAnchors(L, tops, 1, -1, EmptyMap, toc_pages, runners)
      NextOf(n) == { m \in DOMAIN anchors : TupleLess(n, m) }
      Following(n) == CHOOSE m \in NextOf(n) : \A o \in NextOf(n) : o = m \/ TupleLess(m, o)
  IN  [ n \in DOMAIN anchors |->
          [ anchor |-> anchors[n], start |-> anchors[n],
            end |-> IF NextOf(n) = {} THEN Len(L) ELSE anchors[Following(n)] ] ]

\* find_in_window: best scoring line of the window bearing the number, unless
\* it lies at or before the cursor; else the first line bearing the number
\* after the cursor; -1 when there is none.
find_in_window(L, start_idx, end_idx, target, toc_pages, runners, threshold, cursor_idx) ==
  LET bearing == { idx \in Max(0, start_idx + 1)..(Min(Len(L), end_idx) - 1) :
                     /\ ~SeqIneligible(LineAt(L, idx), toc_pages, runners)
                     /\ SeqNumberMatch(LineAt(L, idx), target.num) }
      Score(idx) == token_set_ratio(LineAt(L, idx), target.num, target.ttl)
                    - (IF in_page_band(L, LineAt(L, idx), HEADERS_BAND_LINES) THEN 10 ELSE 0)
      good == { idx \in bearing : Score(idx) >= threshold }
      later == { idx \in bearing : ~(HEADERS_MONOTONIC_STRICT /\ idx <= cursor_idx) }
  IN  IF good # {} /\ ~(HEADERS_MONOTONIC_STRICT /\ BestFirst(good, [idx \in good |-> Score(idx)]) <= cursor_idx)
        THEN BestFirst(good, [idx \in good |-> Score(idx)])
      ELSE IF later # {} THEN CHOOSE idx \in later : \A j \in later : idx <= j
      ELSE -1

\* Child loop of align_headers_sequential: each item of level >= 2 is searched
\* in the padded window of its parent, after the parent's own position.  The
\* state threaded is [anchors (global indices), windows, chain_cursor];
\* ChildCommit is the end of one iteration, idx being the position found for
\* child k (-1 when none) and end the end of the padded window.
RECURSIVE ChildAnchors(_, _, _, _, _, _, _)
RECURSIVE ChildCommit(_, _, _, _, _, _, _, _, _)
ChildCommit(L, children, k, st, toc_pages, runners, threshold, end, idx) ==
  IF idx = -1
  THEN ChildAnchors(L, children, k + 1, st, toc_pages, runners, threshold)
  ELSE ChildAnchors(L, children, k + 1,
         [ anchors |-> (children[k].num :> LineAt(L, idx).gid) @@ st.anchors,
           windows |-> (children[k].num :> [anchor |-> idx, start |-> idx, end |-> end])
                         @@ st.windows,
           chain_cursor |-> (children[k].num :> idx) @@ st.chain_cursor ],
         toc_pages, runners, threshold)

\* Search of child k in the padded window w of its parent.
ChildSearch(L, children, k, st, toc_pages, runners, threshold, w, cursor_idx) ==
  ChildCommit(L, children, k, st, toc_pages, runners, threshold,
              Min(Len(L), w.end + HEADERS_WINDOW_PAD_LINES),
              find_in_window(L, Max(0, w.anchor - HEADERS_WINDOW_PAD_LINES),
                             Min(Len(L), w.end + HEADERS_WINDOW_PAD_LINES),
                             children[k], toc_pages, runners, threshold, cursor_idx))

ChildAnchors(L, children, k, st, toc_pages, runners, threshold) ==
  IF k > Len(children) THEN st
  ELSE IF \/ number_parent(children[k].num) = NoNumber
          \/ number_parent(children[k].num) \notin DOMAIN st.windows
  THEN ChildAnchors(L, children, k + 1, st, toc_pages, runners, threshold)
  ELSE ChildSearch(L, children, k, st, toc_pages, runners, threshold,
                   st.windows[number_parent(children[k].num)],
                   st.chain_cursor[number_parent(children[k].num)])

\* Global indices of the anchored children of a number.
ChildPositions(anchors, parent) ==
  { anchors[n] : n \in { m \in DOMAIN anchors : number_parent(m) = parent } }

SetMin(S) == CHOOSE x \in S : \A y \in S : x <= y

\* HEADERS_REANCHOR_PASS: a parent anchored after its earliest child moves to
\* the first line before that child that bears the parent's number and scores.
ReanchorPass(L, items, anchors, toc_pages, runners, threshold) ==
  IF ~HEADERS_REANCHOR_PASS THEN anchors ELSE
  [ n \in DOMAIN anchors |->
      LET kids == ChildPositions(anchors, n)
          earliest_child_idx == IndexOfGid(L, SetMin(kids)) - 1
          item == CHOOSE it \in { items[i] : i \in DOMAIN items } : it.num = n
          hits == { idx \in Max(0, earliest_child_idx - HEADERS_WINDOW_PAD_LINES * 3)..(earliest_child_idx - 1) :
                      /\ ~SeqIneligible(LineAt(L, idx), toc_pages, runners)
                      /\ SeqNumberMatch(LineAt(L, idx), n)
                      /\ token_set_ratio(LineAt(L, idx), item.num, item.ttl) + 25
                           >= Max(HEADERS_FUZZY_THRESHOLD, threshold) }
      IN  IF kids = {} \/ anchors[n] <= SetMin(kids) THEN anchors[n]
          ELSE IF hits = {} THEN anchors[n]
          ELSE LineAt(L, SetMin(hits)).gid ]

\* compute_windows_from_anchors_and_children: windows of the level-1 items in
\* global indices, opening at the anchor or at an earlier child, closing
\* where the next window (by start) opens.
compute_windows_from_anchors_and_children(L, anchors, items) ==
  LET l1s == { items[i].num : i \in { j \in DOMAIN items : items[j].level = 1 } }
      Kids(n) == { anchors[m] : m \in { c \in DOMAIN anchors :
                      number_parent(c) = n /\ \E i \in DOMAIN items : items[i].num = c /\ items[i].level >= 2 } }
      Started(n) == n \in DOMAIN anchors \/ Kids(n) # {}
      StartOf(n) == IF n \notin DOMAIN anchors THEN SetMin(Kids(n))
                    ELSE IF Kids(n) # {} /\ anchors[n] > SetMin(Kids(n)) THEN SetMin(Kids(n))
                    ELSE anchors[n]
      open == { n \in l1s : Started(n) }
      Before(n, m) == StartOf(n) < StartOf(m) \/ (StartOf(n) = StartOf(m) /\ TupleLess(n, m))
      After(n) == { m \in open : Before(n, m) }
      Following(n) == CHOOSE m \in After(n) : \A o \in After(n) : o = m \/ Before(m, o)
  IN  IF L = <<>> \/ DOMAIN anchors = {} THEN EmptyMap
      ELSE [ n \in open |->
               [ anchor |-> IF n \in DOMAIN anchors THEN anchors[n] ELSE StartOf(n),
                 start |-> StartOf(n),
                 end |-> IF After(n) = {} THEN L[Len(L)].gid + 1 ELSE StartOf(Following(n)) ] ]

within(value, start, end) == start <= value /\ value < end

\* reanchor_parent_title_only: best scoring line before the earliest child,
\* else the parent is put on the earliest child's line (implied anchor).
reanchor_parent_title_only(L, item, earliest_child_idx, toc_pages, runners, fuzzy_threshold) ==
  LET Score(i) == cand_score(L[i], item, SeqNumberMatch(L[i], item.num),
                             in_page_band(L, L[i], HEADERS_BAND_LINES))
      hits == { i \in DOMAIN L :
                  /\ L[i].gid < earliest_child_idx /\ L[i].gid >= Max(0, earliest_child_idx - 800)
                  /\ ~SeqIneligible(L[i], toc_pages, runners)
                  /\ (SeqNumberMatch(L[i], item.num) \/ HEADERS_TITLE_ONLY_REANCHOR)
                  /\ Score(i) >= Max(fuzzy_threshold, 70) }
      best == CHOOSE i \in hits : \A j \in hits :
                Score(j) < Score(i) \/ (Score(j) = Score(i) /\ L[j].gid <= L[i].gid)
  IN  IF hits # {} THEN L[best].gid ELSE earliest_child_idx

\* Pass A of the enforcer: parents in the order their first child appears.
RECURSIVE EnforcePassA(_, _, _, _, _, _, _)
EnforcePassA(L, items, k, pos, toc_pages, runners, fuzzy_threshold) ==
  IF k > Len(items) THEN pos
  ELSE LET parent_num == number_parent(items[k].num)
           first_kid == \A j \in 1..(k - 1) :
                          ~(items[j].level >= 2 /\ number_parent(items[j].num) = parent_num)
           kids == { pos[c] : c \in { m \in DOMAIN pos :
                       number_parent(m) = parent_num
                       /\ \E i \in DOMAIN items : items[i].num = m /\ items[i].level >= 2 } }
           known == \E i \in DOMAIN items : items[i].num = parent_num
           parent_item == CHOOSE it \in { items[i] : i \in DOMAIN items } : it.num = parent_num
       IN  IF /\ items[k].level >= 2 /\ parent_num # NoNumber /\ first_kid /\ kids # {} /\ known
              /\ (parent_num \notin DOMAIN pos \/ pos[parent_num] > SetMin(kids))
           THEN EnforcePassA(L, items, k + 1,
                  (parent_num :> reanchor_parent_title_only(L, parent_item, SetMin(kids),
                                                            toc_pages, runners, fuzzy_threshold)) @@ pos,
                  toc_pages, runners, fuzzy_threshold)
           ELSE EnforcePassA(L, items, k + 1, pos, toc_pages, runners, fuzzy_threshold)

\* Pass B of the enforcer: a descendant anchored outside the window of its
\* ancestor moves to the best scoring line of the window bearing its number.
EnforcePassB(L, items, pos, windows, toc_pages, runners, fuzzy_threshold) ==
  [ n \in DOMAIN pos |->
      LET outside == { p \in DOMAIN windows :
                         /\ is_number_descendant(n, p)
                         /\ ~within(pos[n], windows[p].start, windows[p].end)
                         /\ \E i \in DOMAIN items : items[i].num = n }
          p == CHOOSE q \in outside : TRUE
          item == CHOOSE it \in { items[i] : i \in DOMAIN items } : it.num = n
          Score(i) == cand_score(L[i], item, TRUE, in_page_band(L, L[i], HEADERS_BAND_LINES))
          hits == { i \in DOMAIN L :
                      /\ within(L[i].gid, windows[p].start, windows[p].end)
                      /\ ~SeqIneligible(L[i], toc_pages, runners)
                      /\ SeqNumberMatch(L[i], n)
                      /\ Score(i) >= fuzzy_threshold }
      IN  IF outside = {} THEN pos[n]
          ELSE IF hits = {} THEN pos[n]
          ELSE L[BestFirst(hits, [idx \in hits |-> Score(idx)])].gid ]

\* enforce_invariants_and_autofix: up to HEADERS_RESCAN_PASSES rounds of pass A,
\* window recomputation and pass B, stopping after a round without change.
\* (The dedupe step acts on numbers anchored more than once; pos holds one
\* anchor per number, so it never changes pos.)  EnforceAfterA, EnforceAfterB
\* and EnforceRoundEnd are the rest of a round once pass A, the windows and
\* pass B are computed.
RECURSIVE enforce_invariants_and_autofix(_, _, _, _, _, _, _, _)
RECURSIVE EnforceAfterA(_, _, _, _, _, _, _, _, _)
RECURSIVE EnforceAfterB(_, _, _, _, _, _, _, _, _)
RECURSIVE EnforceRoundEnd(_, _, _, _, _, _, _, _, _)
EnforceRoundEnd(L, items, pos, updated, afterB, toc_pages, runners, fuzzy_threshold, passes) ==
  IF afterB = pos THEN afterB
  ELSE enforce_invariants_and_autofix(L, items, afterB, updated, toc_pages, runners,
                                      fuzzy_threshold, passes - 1)

EnforceAfterB(L, items, pos, updated, afterA, toc_pages, runners, fuzzy_threshold, passes) ==
  EnforceRoundEnd(L, items, pos, updated,
                  EnforcePassB(L, items, afterA, updated, toc_pages, runners, fuzzy_threshold),
                  toc_pages, runners, fuzzy_threshold, passes)

EnforceAfterA(L, items, pos, windows, afterA, toc_pages, runners, fuzzy_threshold, passes) ==
  EnforceAfterB(L, items, pos,
                compute_windows_from_anchors_and_children(L, afterA, items) @@ windows,
                afterA, toc_pages, runners, fuzzy_threshold, passes)

enforce_invariants_and_autofix(L, items, pos, windows, toc_pages, runners, fuzzy_threshold, passes) ==
  IF ~HEADERS_STRICT_INVARIANTS \/ passes = 0 THEN pos
  ELSE EnforceAfterA(L, items, pos, windows,
                     EnforcePassA(L, items, 1, pos, toc_pages, runners, fuzzy_threshold),
                     toc_pages, runners, fuzzy_threshold, passes)

\* The list align_headers_sequential returns: one entry per anchored number,
\* sorted by (global index, number).
SequentialEntries(items, final) ==
  LET Entry(n) == LET item == CHOOSE it \in { items[i] : i \in DOMAIN items } : it.num = n
                  IN  [num |-> n, ttl |-> item.ttl, level |-> item.level, gid |-> final[n]]
      EntryLess(a, b) == a.gid < b.gid \/ (a.gid = b.gid /\ TupleLess(a.num, b.num))
      Rank(n) == Cardinality({ m \in DOMAIN final : EntryLess(Entry(m), Entry(n)) })
  IN  [ k \in 1..Cardinality(DOMAIN final) |->
          Entry(CHOOSE n \in DOMAIN final : Rank(n) = k - 1) ]

\* align_headers_sequential from the anchors of all items on: windows,
\* invariant enforcement, output list.
AlignFromAnchors(L, items, anchors, toc_pages, runners, threshold) ==
  SequentialEntries(items,
    enforce_invariants_and_autofix(L, items, anchors,
                                   compute_windows_from_anchors_and_children(L, anchors, items),
                                   toc_pages, runners, threshold, Max(1, HEADERS_RESCAN_PASSES)))

\* State of the child loop at its start: the level-1 anchors and windows.
ChildLoopStart(L, top_windows) ==
  [ anchors |-> [ n \in DOMAIN top_windows |-> LineAt(L, top_windows[n].anchor).gid ],
    windows |-> top_windows,
    chain_cursor |-> [ n \in DOMAIN top_windows |-> top_windows[n].anchor ] ]

\* align_headers_sequential from the level-1 windows on: child loop,
\* re-anchor pass, then the rest.
AlignFromTops(L, items, top_windows, toc_pages, runners, threshold) ==
  AlignFromAnchors(L, items,
    ReanchorPass(L, items,
                 ChildAnchors(L, SelectSeq(items, LAMBDA it : it.level >= 2), 1,
                              ChildLoopStart(L, top_windows), toc_pages, runners, threshold).anchors,
                 toc_pages, runners, threshold),
    toc_pages, runners, threshold)

AlignItems(L, items, toc_pages, runners, threshold) ==
  AlignFromTops(L, items,
                build_top_level_windows(L, SelectSeq(items, LAMBDA it : it.level = 1),
                                        toc_pages, runners),
                toc_pages, runners, threshold)

\* align_headers_sequential: anchors per number, as a list sorted by
\* (global index, number).
align_headers_sequential(H, L, threshold) ==
  AlignItems(L, make_header_items(H), detect_toc_pages(L), detect_running_header_footer(L),
             threshold)

\* ---------------------------------------------------------- header_locator.py
\* _take_index: position (0-based) of the oracle header with this number and text.
take_index(H, num, ttl) ==
  IF \E i \in DOMAIN H : H[i].num = num /\ H[i].ttl = ttl
  THEN (CHOOSE i \in DOMAIN H : H[i].num = num /\ H[i].ttl = ttl) - 1
  ELSE Len(H) + 1000

\* _locate_headers_legacy, per-header loop: candidates bear the number or
\* contain the title; the first one at or after the previous anchor wins,
\* else the last one.
\* Lines of the usable list that bear the header's number or contain its title.
LegacyCandidates(U, h) ==
  { i \in DOMAIN U :
      \/ (h.num # NoNumber /\ SeqNumberMatch(U[i], h.num))
      \/ U[i].ttl = h.ttl }

RECURSIVE LegacyLoop(_, _, _, _)
LegacyLoop(U, H, k, previous_anchor) ==
  IF k > Len(H) THEN <<>>
  ELSE LET h == H[k]
           candidates == LegacyCandidates(U, h)
           ahead == { i \in candidates : U[i].gid >= previous_anchor }
           best == IF ahead # {} THEN SetMin(ahead)
                   ELSE CHOOSE i \in candidates : \A j \in candidates : j <= i
       IN  IF candidates = {} THEN LegacyLoop(U, H, k + 1, previous_anchor)
           ELSE << [num |-> h.num, ttl |-> h.ttl, level |-> h.level, gid |-> U[best].gid] >>
                \o LegacyLoop(U, H, k + 1, U[best].gid)

locate_headers_legacy(H, L, excluded) ==
  LET usable == SelectSeq(L, LAMBDA l : l.page \notin excluded /\ ~l.is_running)
  IN  SortedBy(LegacyLoop(usable, H, 1, -1), GidLess)

SourceLess(a, b) == a.source_idx < b.source_idx \/ (a.source_idx = b.source_idx /\ a.gid < b.gid)

WithSource(H, Hs) ==
  [ i \in DOMAIN Hs |->
      [ num |-> Hs[i].num, ttl |-> Hs[i].ttl, level |-> Hs[i].level, gid |-> Hs[i].gid,
        source_idx |-> take_index(H, Hs[i].num, Hs[i].ttl) ] ]

\* Coverage check of locate_headers_in_lines: the sequential anchors are
\* dropped as a whole when they cover under 60% of the numbered headers.
CoverageChecked(H, aligned) ==
  LET total_numbered == Cardinality({ i \in DOMAIN H : H[i].num # NoNumber })
  IN  IF total_numbered > 0 /\ 10 * Len(aligned) < 6 * total_numbered THEN <<>> ELSE aligned

\* The headers the sequential aligner did not anchor go to the legacy
\* locator on the lines it left free; the whole is sorted by source position.
LocateRemaining(H, sequential_lines, excluded, sequential_headers) ==
  LET matched_numbers == { sequential_headers[i].num : i \in DOMAIN sequential_headers }
      used_indices == { sequential_headers[i].gid : i \in DOMAIN sequential_headers }
      remaining_headers == SelectSeq(H, LAMBDA h : h.num = NoNumber \/ h.num \notin matched_numbers)
      filtered_lines == SelectSeq(sequential_lines, LAMBDA l : l.gid \notin used_indices)
      legacy == IF remaining_headers = <<>> THEN <<>>
                ELSE locate_headers_legacy(remaining_headers, filtered_lines, excluded)
  IN  SortedBy(WithSource(H, sequential_headers) \o WithSource(H, legacy), SourceLess)

LocateSequential(H, sequential_lines, excluded) ==
  LocateRemaining(H, sequential_lines, excluded,
                  CoverageChecked(H, align_headers_sequential(H, sequential_lines,
                                                              HEADERS_FUZZY_THRESHOLD)))

\* locate_headers_in_lines with the default "sequential" strategy, on the
\* lines outside TOC pages.
locate_headers_in_lines(H, L, excluded) ==
  LocateSequential(H, SelectSeq(L, LAMBDA l : l.page \notin excluded /\ ~l.is_toc), excluded)

\* ------------------------------------------------------ header_locate_vector.py
\* build_line_windows: one window per usable line and one per run of three
\* usable lines of the same page.
build_line_windows(L, excluded) ==
  LET usable == SelectSeq(L, LAMBDA l : l.page \notin excluded /\ ~l.is_toc)
      runs == { q \in (DOMAIN usable) \X {1, 3} :
                   /\ q[1] + q[2] - 1 <= Len(usable)
                   /\ \A a, b \in q[1]..(q[1] + q[2] - 1) : usable[a].page = usable[b].page }
  IN  { [lines |-> SubSeq(usable, q[1], q[1] + q[2] - 1), size |-> q[2]] : q \in runs }

WindowStart(w) == w.lines[1].gid
WindowEnd(w) == w.lines[Len(w.lines)].gid

\* score_candidates: windows that pass the lexical and cosine gates (taken to
\* be the windows containing the header's title) and hold no running line,
\* ranked by fused score (a tighter window scores higher), later end first.
score_candidates(h, windows) ==
  { w \in windows :
      /\ \E a \in DOMAIN w.lines : w.lines[a].ttl = h.ttl /\ h.ttl # 0
      /\ \A a \in DOMAIN w.lines : ~w.lines[a].is_running }

RankedBefore(a, b) ==
  \/ a.size < b.size
  \/ (a.size = b.size /\ WindowEnd(a) > WindowEnd(b))

\* locate_headers_with_vectors, per-header loop: the best ranked candidate
\* starting after the previous anchor.
RECURSIVE VectorLoop(_, _, _, _)
VectorLoop(H, windows, k, previous_anchor) ==
  IF k > Len(H) THEN <<>>
  ELSE LET ok == { w \in score_candidates(H[k], windows) : WindowStart(w) > previous_anchor }
           anchor == CHOOSE w \in ok : \A v \in ok : v = w \/ RankedBefore(w, v)
       IN  IF ok = {} THEN VectorLoop(H, windows, k + 1, previous_anchor)
           ELSE << [ num |-> H[k].num, ttl |-> H[k].ttl, level |-> H[k].level,
                     gid |-> WindowStart(anchor), source_idx |-> k - 1 ] >>
                \o VectorLoop(H, windows, k + 1, Max(previous_anchor, WindowStart(anchor)))

locate_headers_with_vectors(H, L, excluded) ==
  IF H = <<>> \/ build_line_windows(L, excluded) = {} THEN <<>>
  ELSE VectorLoop(H, build_line_windows(L, excluded), 1, -1)

\* --------------------------------------------------------- sections.py
\* _resolve_headers: last occurrence per (number, text, level), sorted by
\* global index; a header colliding with an earlier one moves to a following
\* line (within six) whose whole text equals its text, and is then bumped one
\* index at a time until the index is free.
RECURSIVE BumpFree(_, _)
BumpFree(gid, used) == IF gid \in used THEN BumpFree(gid + 1, used) ELSE gid

RECURSIVE RepairCollisions(_, _, _, _)
RepairCollisions(R, L, k, used) ==
  IF k > Len(R) THEN R
  ELSE IF R[k].gid \notin used
  THEN RepairCollisions(R, L, k + 1, used \cup {R[k].gid})
  ELSE LET at == IndexOfGid(L, R[k].gid)
           window == { i \in DOMAIN L : i > at /\ i <= at + 6
                                        /\ L[i].num = NoNumber /\ L[i].ttl = R[k].ttl }
           moved == IF window = {} THEN R[k].gid
                    ELSE L[CHOOSE i \in window : \A j \in window : i <= j].gid
           gid == BumpFree(moved, used)
       IN  RepairCollisions([R EXCEPT ![k].gid = gid], L, k + 1, used \cup {gid})

SameKey(a, b) == a.num = b.num /\ a.ttl = b.ttl /\ a.level = b.level

resolve_headers(Hs, L) ==
  LET survivors == { i \in DOMAIN Hs :
                       \A j \in DOMAIN Hs : SameKey(Hs[j], Hs[i]) =>
                         (Hs[j].gid < Hs[i].gid \/ (Hs[j].gid = Hs[i].gid /\ j <= i)) }
      FirstOfKey(i) == CHOOSE j \in DOMAIN Hs :
                         SameKey(Hs[j], Hs[i]) /\ \A m \in DOMAIN Hs : SameKey(Hs[m], Hs[i]) => j <= m
      dedup == [ k \in 1..Cardinality(survivors) |->
                   Hs[CHOOSE i \in survivors :
                        Cardinality({ m \in survivors : FirstOfKey(m) < FirstOfKey(i) }) = k - 1] ]
  IN  RepairCollisions(SortedBy(dedup, GidLess), L, 1, {})

\* build_section_spans: half-open [start, next start), the last one ending
\* after the last line; an end before the start is clamped to the start.
build_section_spans(Hs, L) ==
  LET resolved == resolve_headers(Hs, L)
      document_end == IF L = <<>> THEN 0 ELSE L[Len(L)].gid + 1
  IN  [ k \in DOMAIN resolved |->
          LET start_gid == resolved[k].gid
              end_gid == IF k < Len(resolved) THEN resolved[k + 1].gid ELSE document_end
          IN  [ num |-> resolved[k].num, ttl |-> resolved[k].ttl,
                start_global_idx |-> start_gid,
                end_global_idx |-> IF end_gid < start_gid THEN start_gid ELSE end_gid ] ]

\* -------------------------------------------------- extract_headers_and_chunks
Event(type, method, num, gid) ==
  [type |-> type, method |-> method, reason |-> "", num |-> num, gid |-> gid]

Fallback(method, reason) ==
  [type |-> "fallback_triggered", method |-> method, reason |-> reason, num |-> NoNumber, gid |-> -1]

LlmFailureMessage == "LLM header extraction failed"
VectorUnavailableMessage == "Vector header locator unavailable; using sequential alignment."
LlmDisabledMessage == "LLM header extraction is disabled by configuration."

\* end_run event closing the trace of a request; a cache hit reports mode "cache".
EndRun(mode) == Event("end_run", mode, NoNumber, -1)

\* A cache hit whose mode is replaced by the default of a body without mode.
CacheHitDefaultMode ==
  /\ pc = "cache"
  /\ session /\ artifact # NoArtifact
  /\ located_headers' = artifact.headers
  /\ sections' = artifact.sections
  /\ messages' = artifact.messages
  /\ mode_used' = "cache"
  /\ trace' = trace \cup {EndRun("cache")}
  /\ outcome' = "returned"
  /\ pc' = "api"
  /\ UNCHANGED << document, settings, session, lines, llm_headers, artifact, spans, llm_response, error, rows, tracer,
                  raw_text, cleaned, llm_service, cache_dir, llm_result, calls, first_headers, repair, embeddings_cache, simple_headers_state >>

\* Lookup of the cached HEADER_TREE artifact; a hit is returned as the result.
CacheHit ==
  /\ pc = "cache"
  /\ session /\ artifact # NoArtifact
  /\ located_headers' = artifact.headers
  /\ sections' = artifact.sections
  /\ messages' = artifact.messages
  /\ mode_used' = artifact.mode
  /\ trace' = trace \cup {EndRun("cache")}
  /\ outcome' = "returned"
  /\ pc' = "api"
  /\ UNCHANGED << document, settings, session, lines, llm_headers, artifact, spans, llm_response, error, rows, tracer,
                  raw_text, cleaned, llm_service, cache_dir, llm_result, calls, first_headers, repair, embeddings_cache, simple_headers_state >>

CacheMiss ==
  /\ pc = "cache"
  /\ ~(session /\ artifact # NoArtifact)
  /\ settings.headers_mode = "llm_full"
  /\ pc' = "oracle"
  /\ UNCHANGED << document, settings, session, lines, llm_headers, located_headers, sections,
                  mode_used, messages, trace, artifact, outcome, spans, llm_response, error, rows, tracer,
                  raw_text, cleaned, llm_service, cache_dir, llm_result, calls, first_headers, repair, embeddings_cache, simple_headers_state >>

LlmDisabled ==
  /\ pc = "cache"
  /\ ~(session /\ artifact # NoArtifact)
  /\ settings.headers_mode # "llm_full"
  /\ mode_used' = "llm_disabled"
  /\ messages' = Append(messages, LlmDisabledMessage)
  /\ trace' = trace \cup {Fallback("llm_disabled", "configuration")}
  /\ pc' = "enforce"
  /\ UNCHANGED << document, settings, session, lines, llm_headers, located_headers, sections,
                  artifact, outcome, spans, llm_response, error, rows, tracer,
                  raw_text, cleaned, llm_service, cache_dir, llm_result, calls, first_headers, repair, embeddings_cache, simple_headers_state >>

\* get_headers_llm_full returns an outline.
OracleReturns ==
  /\ pc = "oracle"
  /\ \E h \in Outlines : llm_headers' = h
  /\ llm_response' = "outline"
  /\ pc' = IF settings.headers_llm_strict /\ llm_headers' # <<>> THEN "strict"
           ELSE IF settings.header_locate_use_embeddings THEN "vector"
           ELSE "lexical"
  /\ UNCHANGED << document, settings, session, lines, located_headers, sections,
                  mode_used, messages, trace, artifact, outcome, spans, error, rows, tracer,
                  raw_text, cleaned, llm_service, cache_dir, llm_result, calls, first_headers, repair, embeddings_cache, simple_headers_state >>

\* Ways the oracle call ends without an outline: the chat call raises, the
\* reply has no fenced block (ValueError), the fenced block is not JSON.
OracleFailures == {"transport_error", "missing_fence", "invalid_json"}

\* get_headers_llm_full raises: caught by the outer handler.
OracleFails ==
  /\ pc = "oracle"
  /\ \E cause \in OracleFailures : llm_response' = cause
  /\ located_headers' = <<>>
  /\ messages' = Append(messages, LlmFailureMessage)
  /\ mode_used' = "llm_full_error"
  /\ trace' = trace \cup {Fallback("llm_full", "exception")}
  /\ pc' = "enforce"
  /\ UNCHANGED << document, settings, session, lines, llm_headers, sections,
                  artifact, outcome, spans, error, rows, tracer,
                  raw_text, cleaned, llm_service, cache_dir, llm_result, calls, first_headers, repair, embeddings_cache, simple_headers_state >>

\* The orchestrator's copy of the strict aligner's result.
StrictLocated(strict_resolved) ==
  [ i \in DOMAIN strict_resolved |->
      [ num |-> strict_resolved[i].num, ttl |-> strict_resolved[i].ttl,
        level |-> strict_resolved[i].level, gid |-> strict_resolved[i].gid,
        source_idx |-> -1 ] ]

\* anchor_resolved_strict events, one per header the per-header loop resolved.
StrictEvents(picked) ==
  { Event("anchor_resolved_strict", picked[i].strategy, picked[i].num, picked[i].gid) :
      i \in DOMAIN picked }

\* anchor_unresolved_strict events: the headers for which the per-header loop
\* found no line, the cursor prev_idx being left as it was.
RECURSIVE StrictUnresolved(_, _, _, _)
StrictUnresolvedStep(L, H, k, prev_idx, p) ==
  IF p.strategy = "unresolved"
  THEN {[type |-> "anchor_unresolved_strict", method |-> "llm_strict", reason |-> "no_candidate",
         num |-> H[k].num, gid |-> -1]}
       \cup StrictUnresolved(L, H, k + 1, prev_idx)
  ELSE StrictUnresolved(L, H, k + 1, L[p.idx].gid)

StrictUnresolved(L, H, k, prev_idx) ==
  IF k > Len(H) THEN {}
  ELSE StrictUnresolvedStep(L, H, k, prev_idx, StrictPick(L, H[k], prev_idx))

\* Events the strict aligner hands to its tracer.
StrictTrace(L, H) ==
  StrictEvents(StrictResolve(L, H, 1, -1, <<>>)) \cup StrictUnresolved(L, H, 1, -1)

\* Events of the sequential aligner for the items it leaves without anchor:
\* anchor_unresolved_top for a level-1 item, missing_parent for a child whose
\* parent has no window, anchor_unresolved_child and unresolved for a child
\* not found in its parent's window.  Unnumbered headers are no items.
SequentialUnresolved(L, items, top_windows, st) ==
  LET tops == { items[i] : i \in { j \in DOMAIN items : items[j].level = 1 } }
      children == { items[i] : i \in { j \in DOMAIN items : items[j].level >= 2 } }
      searched == { c \in children : number_parent(c.num) \in DOMAIN st.windows }
  IN  { Event("anchor_unresolved_top", "sequential", t.num, -1) :
          t \in { u \in tops : u.num \notin DOMAIN top_windows } }
      \cup { Event("missing_parent", "sequential", c.num, -1) :
               c \in { d \in children : number_parent(d.num) # NoNumber /\ d \notin searched } }
      \cup UNION { { Event("anchor_unresolved_child", "sequential", c.num, -1),
                     [type |-> "unresolved", method |-> "sequential", reason |-> "no_match_in_window",
                      num |-> c.num, gid |-> -1] } :
                     c \in { d \in searched : d.num \notin DOMAIN st.anchors } }

SequentialTrace(L, items, toc_pages, runners, threshold, top_windows) ==
  SequentialUnresolved(L, items, top_windows,
    ChildAnchors(L, SelectSeq(items, LAMBDA it : it.level >= 2), 1,
                 ChildLoopStart(L, top_windows), toc_pages, runners, threshold))

\* fallback_triggered events of _locate_headers_legacy: one per header without
\* candidate line.
LegacyTrace(H, L, excluded) ==
  LET usable == SelectSeq(L, LAMBDA l : l.page \notin excluded /\ ~l.is_running)
  IN  { [type |-> "fallback_triggered", method |-> "candidate_search", reason |-> "no_candidates",
         num |-> H[k].num, gid |-> -1] :
          k \in { i \in DOMAIN H : LegacyCandidates(usable, H[i]) = {} } }

\* Events of locate_headers_in_lines for the headers left without anchor.
LocateTrace(H, sequential_lines, excluded, sequential_headers) ==
  LET matched_numbers == { sequential_headers[i].num : i \in DOMAIN sequential_headers }
      used_indices == { sequential_headers[i].gid : i \in DOMAIN sequential_headers }
      remaining_headers == SelectSeq(H, LAMBDA h : h.num = NoNumber \/ h.num \notin matched_numbers)
      filtered_lines == SelectSeq(sequential_lines, LAMBDA l : l.gid \notin used_indices)
  IN  SequentialTrace(sequential_lines, make_header_items(H), detect_toc_pages(sequential_lines),
                      detect_running_header_footer(sequential_lines), HEADERS_FUZZY_THRESHOLD,
                      build_top_level_windows(sequential_lines,
                        SelectSeq(make_header_items(H), LAMBDA it : it.level = 1),
                        detect_toc_pages(sequential_lines),
                        detect_running_header_footer(sequential_lines)))
      \cup LegacyTrace(remaining_headers, filtered_lines, excluded)

LexicalTrace(H, L, excluded) ==
  LocateTrace(H, SelectSeq(L, LAMBDA l : l.page \notin excluded /\ ~l.is_toc), excluded,
              CoverageChecked(H, align_headers_sequential(H,
                SelectSeq(L, LAMBDA l : l.page \notin excluded /\ ~l.is_toc),
                HEADERS_FUZZY_THRESHOLD)))

StrictAlign ==
  /\ pc = "strict"
  /\ located_headers' = StrictLocated(align_headers_llm_strict(llm_headers, lines))
  /\ trace' = trace \cup StrictTrace(lines, llm_headers)
  /\ mode_used' = IF located_headers' # <<>> THEN "llm_strict" ELSE mode_used
  /\ pc' = IF located_headers' # <<>> THEN "enforce"
           ELSE IF settings.header_locate_use_embeddings THEN "vector"
           ELSE "lexical"
  /\ UNCHANGED << document, settings, session, lines, llm_headers, sections,
                  messages, artifact, outcome, spans, llm_response, error, rows, tracer,
                  raw_text, cleaned, llm_service, cache_dir, llm_result, calls, first_headers, repair, embeddings_cache, simple_headers_state >>

\* The vector locator ran to completion.
VectorLocate ==
  /\ pc = "vector"
  /\ located_headers' = locate_headers_with_vectors(llm_headers, lines, excluded_pages(document))
  /\ mode_used' = IF located_headers' # <<>> THEN "llm_vector" ELSE mode_used
  /\ trace' = trace \cup { Event("vector_anchor", "vector", located_headers'[i].num, located_headers'[i].gid) :
                             i \in DOMAIN located_headers' }
  /\ pc' = IF located_headers' # <<>> THEN "enforce" ELSE "lexical"
  /\ UNCHANGED << document, settings, session, lines, llm_headers, sections,
                  messages, artifact, outcome, spans, llm_response, error, rows, tracer,
                  raw_text, cleaned, llm_service, cache_dir, llm_result, calls, first_headers, repair, embeddings_cache, simple_headers_state >>

\* The embedding provider raised inside the vector locator: caught by the
\* inner handler, which falls back to the lexical locator.
VectorFails ==
  /\ pc = "vector"
  /\ llm_headers # <<>> /\ build_line_windows(lines, excluded_pages(document)) # {}
  /\ located_headers' = <<>>
  /\ messages' = Append(messages, VectorUnavailableMessage)
  /\ trace' = trace \cup {Fallback("vector", "exception")}
  /\ pc' = "lexical"
  /\ UNCHANGED << document, settings, session, lines, llm_headers, sections,
                  mode_used, artifact, outcome, spans, llm_response, error, rows, tracer,
                  raw_text, cleaned, llm_service, cache_dir, llm_result, calls, first_headers, repair, embeddings_cache, simple_headers_state >>

\* Neither the strict aligner nor the vector locator left headers: the
\* lexical locator runs, and the attempts that came back empty are traced.
LexicalLocate ==
  /\ pc = "lexical"
  /\ located_headers' = locate_headers_in_lines(llm_headers, lines, excluded_pages(document))
  /\ trace' = trace
       \cup LexicalTrace(llm_headers, lines, excluded_pages(document))
       \cup (IF settings.header_locate_use_embeddings
             THEN {Fallback("vector", "no_candidates")} ELSE {})
       \cup (IF settings.headers_llm_strict /\ llm_headers # <<>>
             THEN {Fallback("llm_strict", "no_candidates")} ELSE {})
  /\ pc' = "enforce"
  /\ UNCHANGED << document, settings, session, lines, llm_headers, sections,
                  mode_used, messages, artifact, outcome, spans, llm_response, error, rows, tracer,
                  raw_text, cleaned, llm_service, cache_dir, llm_result, calls, first_headers, repair, embeddings_cache, simple_headers_state >>

\* _enforce_header_sequence, entry: nothing to do without headers, else the
\* working list is sorted by global index, then by order key, and chunked.
EnforceStart ==
  /\ pc = "enforce"
  /\ located_headers' = SortForOutput(located_headers)
  /\ sections' = single_chunks_from_headers(located_headers', lines, 1)
  /\ pc' = IF located_headers = <<>> THEN "store" ELSE "gapfill"
  /\ UNCHANGED << document, settings, session, lines, llm_headers,
                  mode_used, messages, trace, artifact, outcome, spans, llm_response, error, rows, tracer,
                  raw_text, cleaned, llm_service, cache_dir, llm_result, calls, first_headers, repair, embeddings_cache, simple_headers_state >>

\* An iteration that finds a candidate but leaves the list as it is.
GapFillInsertDropped ==
  /\ pc = "gapfill"
  /\ Fillable(located_headers, sections, lines) # {}
  /\ pc' = "gapfill"
  /\ UNCHANGED << document, settings, session, lines, llm_headers, located_headers, sections,
                  mode_used, messages, trace, artifact, outcome, spans, llm_response, error, rows, tracer,
                  raw_text, cleaned, llm_service, cache_dir, llm_result, calls, first_headers, repair, embeddings_cache, simple_headers_state >>

\* One iteration of the gap loop that inserts a header: the first fillable
\* gap is filled from its chunk, the list re-sorted by global index and the
\* chunks recomputed.  The header text is `remainder or stripped`: what
\* follows the numbering, or the whole line when nothing follows, in which
\* case the text adds no token to the number (title NoTitle).
GapFillInsert ==
  /\ pc = "gapfill"
  /\ Fillable(located_headers, sections, lines) # {}
  /\ \E gap \in { Gaps(located_headers)[SetMin(Fillable(located_headers, sections, lines))] } :
       \E chunk \in { sections[gap.after_index] } :
         \E line \in { lines[find_header_in_chunk(chunk, lines, gap.components)] } :
           \E candidate \in { [ num |-> gap.components, ttl |-> line.ttl, level |-> chunk.level,
                                 gid |-> line.gid, source_idx |-> -1 ] } :
             \E working_headers \in { SortedBy(Append(located_headers, candidate), GidLess) } :
               /\ located_headers' = working_headers
               /\ sections' = single_chunks_from_headers(working_headers, lines, 1)
               /\ trace' = trace \cup {Event("anchor_resolved", "gap_fill", candidate.num, candidate.gid)}
  /\ pc' = "gapfill"
  /\ UNCHANGED << document, settings, session, lines, llm_headers,
                  mode_used, messages, artifact, outcome, spans, llm_response, error, rows, tracer,
                  raw_text, cleaned, llm_service, cache_dir, llm_result, calls, first_headers, repair, embeddings_cache, simple_headers_state >>

\* The last iteration without its fallback_triggered event.
GapFillDoneSilent ==
  /\ pc = "gapfill"
  /\ Fillable(located_headers, sections, lines) = {}
  /\ trace' = trace
  /\ located_headers' = SortForOutput(located_headers)
  /\ pc' = "store"
  /\ UNCHANGED << document, settings, session, lines, llm_headers, sections,
                  mode_used, messages, artifact, outcome, spans, llm_response, error, rows, tracer,
                  raw_text, cleaned, llm_service, cache_dir, llm_result, calls, first_headers, repair, embeddings_cache, simple_headers_state >>

\* Last iteration of the gap loop (no gap, or none that can be filled), then
\* the final sort by global index and by order key; source_idx is dropped.
GapFillDone ==
  /\ pc = "gapfill"
  /\ Fillable(located_headers, sections, lines) = {}
  /\ trace' = IF Gaps(located_headers) # <<>>
              THEN trace \cup {Fallback("gap_fill", "unresolved")}
              ELSE trace
  /\ located_headers' = SortForOutput(located_headers)
  /\ pc' = "store"
  /\ UNCHANGED << document, settings, session, lines, llm_headers, sections,
                  mode_used, messages, artifact, outcome, spans, llm_response, error, rows, tracer,
                  raw_text, cleaned, llm_service, cache_dir, llm_result, calls, first_headers, repair, embeddings_cache, simple_headers_state >>

ResultBody ==
  [ headers |-> located_headers, sections |-> sections, mode |-> mode_used, messages |-> messages ]

\* store_artifact: an existing row wins, else the result is committed.
StoreArtifact ==
  /\ pc = "store"
  /\ session
  /\ artifact' = IF artifact # NoArtifact THEN artifact ELSE ResultBody
  /\ pc' = "return"
  /\ UNCHANGED << document, settings, session, lines, llm_headers, located_headers, sections,
                  mode_used, messages, trace, outcome, spans, llm_response, error, rows, tracer,
                  raw_text, cleaned, llm_service, cache_dir, llm_result, calls, first_headers, repair, embeddings_cache, simple_headers_state >>

\* store_artifact raises (the commit fails); nothing around the call catches.
StoreArtifactFails ==
  /\ pc = "store"
  /\ session
  /\ outcome' = "raised"
  /\ error' = "SQLAlchemyError"
  /\ pc' = "done"
  /\ UNCHANGED << document, settings, session, lines, llm_headers, located_headers, sections,
                  mode_used, messages, trace, artifact, spans, llm_response, rows, tracer,
                  raw_text, cleaned, llm_service, cache_dir, llm_result, calls, first_headers, repair, embeddings_cache, simple_headers_state >>

Return ==
  /\ pc = "return" \/ (pc = "store" /\ ~session)
  /\ trace' = trace \cup {EndRun(mode_used)}
  /\ outcome' = "returned"
  /\ pc' = "api"
  /\ UNCHANGED << document, settings, session, lines, llm_headers, located_headers, sections,
                  mode_used, messages, artifact, spans, llm_response, error, rows, tracer,
                  raw_text, cleaned, llm_service, cache_dir, llm_result, calls, first_headers, repair, embeddings_cache, simple_headers_state >>

\* api/headers.py: the spans of the returned headers are built and stored.
BuildSections ==
  /\ pc = "api"
  /\ spans' = build_section_spans(located_headers, lines)
  /\ pc' = "done"
  /\ UNCHANGED << document, settings, session, lines, llm_headers, located_headers, sections,
                  mode_used, messages, trace, artifact, outcome, llm_response, error, rows, tracer,
                  raw_text, cleaned, llm_service, cache_dir, llm_result, calls, first_headers, repair, embeddings_cache, simple_headers_state >>

\* The client asks for the headers of the same document again.
NextRequest ==
  /\ pc = "done"
  /\ pc' = "collect"
  /\ lines' = <<>>
  /\ llm_headers' = <<>>
  /\ located_headers' = <<>>
  /\ sections' = <<>>
  /\ mode_used' = "llm_full"
  /\ messages' = <<>>
  /\ trace' = {}
  /\ outcome' = "pending"
  /\ spans' = <<>>
  /\ llm_response' = "none"
  /\ error' = "none"
  /\ UNCHANGED << document, settings, session, artifact, rows, tracer,
                  raw_text, cleaned, llm_service, cache_dir, llm_result, calls, first_headers, repair, embeddings_cache, simple_headers_state >>

Next ==
  \/ CollectLines
  \/ CacheHit
  \/ CacheMiss
  \/ LlmDisabled
  \/ OracleReturns
  \/ OracleFails
  \/ StrictAlign
  \/ VectorLocate
  \/ VectorFails
  \/ LexicalLocate
  \/ EnforceStart
  \/ GapFillInsert
  \/ GapFillDone
  \/ StoreArtifact
  \/ StoreArtifactFails
  \/ Return
  \/ BuildSections
  \/ NextRequest

Spec == Init /\ [][Next]_vars

\* ------------------------------------------ extract_headers_and_sections_strict
\* The strict entry point: one oracle call over the given lines, the strict
\* aligner, and contiguous sections cut at the located headers.
InitStrict ==
  /\ pc = "strict_generate"
  /\ document \in { d \in Documents : ValidDocument(d) }
  /\ settings = [ headers_mode |-> "llm_full", headers_llm_strict |-> TRUE,
                  header_locate_use_embeddings |-> FALSE ]
  /\ session = FALSE
  /\ lines = collect_line_metrics(document)
  /\ llm_headers = <<>>
  /\ located_headers = <<>>
  /\ sections = <<>>
  /\ mode_used = "llm_strict"
  /\ messages = <<>>
  /\ trace = {}
  /\ artifact = NoArtifact
  /\ outcome = "pending"
  /\ spans = <<>>
  /\ llm_response = "none"
  /\ error = "none"
  /\ rows = <<>>
  /\ tracer \in BOOLEAN
  /\ raw_text = <<>>
  /\ cleaned = <<>>
  /\ llm_service = NewLLMService
  /\ simple_headers_state = NoSimpleHeaders
  /\ embeddings_cache = NoEmbeddings
  /\ repair = NoRepair
  /\ first_headers = NoFirst
  /\ calls = 0
  /\ llm_result = NoResult
  /\ cache_dir = NoFiles

\* line_idx of a line: its position on its page.
StrictLineIndex(L, gid) ==
  Cardinality({ j \in DOMAIN L : L[j].page = L[gid + 1].page /\ L[j].gid < gid })

strict_located(resolved, L) ==
  SortedBy([ k \in DOMAIN resolved |->
               [ num |-> resolved[k].num, ttl |-> resolved[k].ttl, level |-> resolved[k].level,
                 line_index |-> StrictLineIndex(L, resolved[k].gid),
                 gid |-> resolved[k].gid ] ], GidLess)

strict_sections(located, L) ==
  IF L = <<>> \/ located = <<>> THEN <<>>
  ELSE [ k \in DOMAIN located |->
           LET start_line_index == located[k].line_index
               following == IF k < Len(located) THEN located[k + 1].line_index - 1
                            ELSE Len(L) - 1
               next_line_index == Max(following, start_line_index)
           IN  [ num |-> located[k].num, ttl |-> located[k].ttl, level |-> located[k].level,
                 start_line_index |-> start_line_index,
                 end_line_index |-> next_line_index,
                 start_global_index |-> located[k].gid,
                 end_global_index |-> L[next_line_index + 1].gid ] ]

\* llm.generate raises: the provider fails, or (LLMService) every attempt
\* came back without the fence.
StrictGenerateRaises ==
  /\ pc = "strict_generate"
  /\ \E cause \in {"transport_error", "missing_fence"} : llm_response' = cause
  /\ outcome' = "raised"
  /\ error' = "LLMProviderError"
  /\ pc' = "done"
  /\ UNCHANGED << document, settings, session, lines, llm_headers, located_headers, sections,
                  mode_used, messages, trace, artifact, spans, rows, tracer,
                  raw_text, cleaned, llm_service, cache_dir, llm_result, calls, first_headers, repair, embeddings_cache, simple_headers_state >>

\* llm.generate returns a result.
StrictGenerateReturns ==
  /\ pc = "strict_generate"
  /\ \E r \in {"outline", "missing_fence", "invalid_json"} : llm_response' = r
  /\ pc' = "strict_parse"
  /\ UNCHANGED << document, settings, session, lines, llm_headers, located_headers, sections,
                  mode_used, messages, trace, artifact, outcome, spans, error, rows, tracer,
                  raw_text, cleaned, llm_service, cache_dir, llm_result, calls, first_headers, repair, embeddings_cache, simple_headers_state >>

\* The result carries no fenced block.
StrictMissingFence ==
  /\ pc = "strict_parse"
  /\ llm_response = "missing_fence"
  /\ outcome' = "raised"
  /\ error' = "RuntimeError"
  /\ pc' = "done"
  /\ UNCHANGED << document, settings, session, lines, llm_headers, located_headers, sections,
                  mode_used, messages, trace, artifact, spans, llm_response, rows, tracer,
                  raw_text, cleaned, llm_service, cache_dir, llm_result, calls, first_headers, repair, embeddings_cache, simple_headers_state >>

\* StrictSections with a tracer-guarded skip of the headers below level 1.
StrictSectionsTracerSkips ==
  /\ pc = "strict_parse"
  /\ llm_response # "missing_fence"
  /\ \E h \in (IF llm_response = "invalid_json" THEN {<<>>} ELSE Outlines) : llm_headers' = h
  /\ located_headers' = strict_located(IF tracer
                                       THEN SelectSeq(align_headers_llm_strict(llm_headers', lines),
                                                      LAMBDA r : r.level = 1)
                                       ELSE align_headers_llm_strict(llm_headers', lines), lines)
  /\ sections' = strict_sections(located_headers', lines)
  /\ trace' = IF tracer
              THEN trace \cup StrictTrace(lines, llm_headers')
              ELSE trace
  /\ outcome' = "returned"
  /\ pc' = "done"
  /\ UNCHANGED << document, settings, session, lines, mode_used, messages, artifact, spans,
                  llm_response, error, rows, tracer,
                  raw_text, cleaned, llm_service, cache_dir, llm_result, calls, first_headers, repair, embeddings_cache, simple_headers_state >>

\* The fenced block is decoded (a block that is not JSON counts as an empty
\* payload), the headers aligned and the sections cut.
StrictSections ==
  /\ pc = "strict_parse"
  /\ llm_response # "missing_fence"
  /\ \E h \in (IF llm_response = "invalid_json" THEN {<<>>} ELSE Outlines) : llm_headers' = h
  /\ located_headers' = strict_located(align_headers_llm_strict(llm_headers', lines), lines)
  /\ sections' = strict_sections(located_headers', lines)
  /\ trace' = IF tracer
              THEN trace \cup StrictTrace(lines, llm_headers')
              ELSE trace
  /\ outcome' = "returned"
  /\ pc' = "done"
  /\ UNCHANGED << document, settings, session, lines, mode_used, messages, artifact, spans,
                  llm_response, error, rows, tracer,
                  raw_text, cleaned, llm_service, cache_dir, llm_result, calls, first_headers, repair, embeddings_cache, simple_headers_state >>

NextStrict ==
  \/ StrictGenerateRaises
  \/ StrictGenerateReturns
  \/ StrictMissingFence
  \/ StrictSections

StrictSpec == InitStrict /\ [][NextStrict]_vars

\* ------------------------------------------------- _enforce_header_sequence
\* The sequence enforcement on its own: documents of numbered headings and
\* prose, each heading text at most once, of which the oracle lists some (in
\* document order); the strict aligner anchors them, then the gap loop runs.
MaxGapLines == 4

\* "3 C" and a line made of the number 2 alone join the body texts.
GapLineTexts == LineTexts \cup { [num |-> <<3>>, ttl |-> 4], [num |-> <<2>>, ttl |-> NoTitle] }

InitGap ==
  /\ pc = "strict"
  /\ \E t \in SeqsUpTo(GapLineTexts, MaxGapLines) :
       /\ \A i, j \in DOMAIN t : (i # j /\ t[i] = t[j]) => t[i] = Prose
       /\ document = [texts |-> t, toc |-> 0, running |-> NoText]
  /\ settings = [ headers_mode |-> "llm_full", headers_llm_strict |-> TRUE,
                  header_locate_use_embeddings |-> FALSE ]
  /\ session = FALSE
  /\ lines = collect_line_metrics(document)
  /\ \E listed \in SUBSET { i \in DOMAIN lines : lines[i].num # NoNumber /\ lines[i].ttl # NoTitle } :
       /\ listed # {}
       /\ llm_headers = [ k \in 1..Cardinality(listed) |->
            LET i == CHOOSE n \in listed : Cardinality({ m \in listed : m < n }) = k - 1
            IN  [num |-> lines[i].num, ttl |-> lines[i].ttl, level |-> Len(lines[i].num)] ]
  /\ located_headers = <<>>
  /\ sections = <<>>
  /\ mode_used = "llm_full"
  /\ messages = <<>>
  /\ trace = {}
  /\ artifact = NoArtifact
  /\ outcome = "pending"
  /\ spans = <<>>
  /\ llm_response = "outline"
  /\ error = "none"
  /\ rows = <<>>
  /\ tracer = TRUE
  /\ raw_text = <<>>
  /\ cleaned = <<>>
  /\ llm_service = NewLLMService
  /\ simple_headers_state = NoSimpleHeaders
  /\ embeddings_cache = NoEmbeddings
  /\ repair = NoRepair
  /\ first_headers = NoFirst
  /\ calls = 0
  /\ llm_result = NoResult
  /\ cache_dir = NoFiles

NextGap ==
  \/ StrictAlign
  \/ EnforceStart
  \/ GapFillInsert
  \/ GapFillDone

GapSpec == InitGap /\ [][NextGap]_vars

\* The gap loop of _enforce_header_sequence from its first iteration on: the
\* same documents and outlines, the strict aligner's anchors sorted and
\* chunked as the entry of _enforce_header_sequence leaves them.  Each
\* iteration that can be made is made.
InitGapLoop ==
  /\ pc = "gapfill"
  /\ \E t \in SeqsUpTo(GapLineTexts, MaxGapLines) :
       /\ \A i, j \in DOMAIN t : (i # j /\ t[i] = t[j]) => t[i] = Prose
       /\ document = [texts |-> t, toc |-> 0, running |-> NoText]
  /\ settings = [ headers_mode |-> "llm_full", headers_llm_strict |-> TRUE,
                  header_locate_use_embeddings |-> FALSE ]
  /\ session = FALSE
  /\ lines = collect_line_metrics(document)
  /\ \E listed \in SUBSET { i \in DOMAIN lines : lines[i].num # NoNumber /\ lines[i].ttl # NoTitle } :
       /\ listed # {}
       /\ llm_headers = [ k \in 1..Cardinality(listed) |->
            LET i == CHOOSE n \in listed : Cardinality({ m \in listed : m < n }) = k - 1
            IN  [num |-> lines[i].num, ttl |-> lines[i].ttl, level |-> Len(lines[i].num)] ]
  /\ \E strict_resolved \in { align_headers_llm_strict(llm_headers, lines) } :
       located_headers = SortForOutput(StrictLocated(strict_resolved))
  /\ located_headers # <<>>
  /\ sections = single_chunks_from_headers(located_headers, lines, 1)
  /\ mode_used = "llm_strict"
  /\ messages = <<>>
  /\ trace = StrictTrace(lines, llm_headers)
  /\ artifact = NoArtifact
  /\ outcome = "pending"
  /\ spans = <<>>
  /\ llm_response = "outline"
  /\ error = "none"
  /\ rows = <<>>
  /\ tracer = TRUE
  /\ raw_text = <<>>
  /\ cleaned = <<>>
  /\ llm_service = NewLLMService
  /\ simple_headers_state = NoSimpleHeaders
  /\ embeddings_cache = NoEmbeddings
  /\ repair = NoRepair
  /\ first_headers = NoFirst
  /\ calls = 0
  /\ llm_result = NoResult
  /\ cache_dir = NoFiles

NextGapLoop ==
  \/ GapFillInsert
  \/ GapFillDone

GapLoopSpec == InitGapLoop /\ [][NextGapLoop]_vars /\ WF_vars(NextGapLoop)

\* ------------------------------------------------------------ store_artifact
MaxRows == 3

\* Cache inputs as the caller builds them (key/value pairs in insertion order).
ArtifactInputs ==
  { << <<"doc_hash", 123>>, <<"parser_version", 1>> >>,
    << <<"parser_version", 1>>, <<"doc_hash", 123>> >>,
    << <<"doc_hash", 456>>, <<"parser_version", 1>> >> }

ArtifactCalls ==
  [ document_id : {1, 2}, artifact_type : {"header_tree"}, key : {"llm_full", "llm_simple"},
    inputs : ArtifactInputs, body : {[headers |-> <<>>], [headers |-> <<1>>]} ]

\* _normalise_inputs: the hash of the JSON with sorted keys depends on the
\* pairs only, not on their order.
normalise_inputs(inputs) == { inputs[i] : i \in DOMAIN inputs }

\* The rows the lookup's query matches; .first() yields one of them.
get_cached_artifact(table, document_id, artifact_type, key, inputs) ==
  { table[i] : i \in { n \in DOMAIN table :
      /\ table[n].document_id = document_id
      /\ table[n].artifact_type = artifact_type
      /\ table[n].artifact_key = key
      /\ table[n].sha_inputs = normalise_inputs(inputs) } }

NewArtifact(table, call) ==
  [ id |-> Len(table) + 1, document_id |-> call.document_id,
    artifact_type |-> call.artifact_type, artifact_key |-> call.key,
    sha_inputs |-> normalise_inputs(call.inputs), body |-> call.body ]

\* A store that writes the new body over the row it found.
store_artifact_upsert(table, call) ==
  LET existing == get_cached_artifact(table, call.document_id, call.artifact_type,
                                      call.key, call.inputs)
  IN  IF existing # {}
      THEN { [ table |-> [ i \in DOMAIN table |->
                            IF table[i] = e THEN [e EXCEPT !.body = call.body] ELSE table[i] ],
               artifact |-> [e EXCEPT !.body = call.body] ] : e \in existing }
      ELSE { [ table |-> Append(table, NewArtifact(table, call)),
               artifact |-> NewArtifact(table, call) ] }

\* store_artifact: the possible outcomes (table afterwards, artifact returned).
store_artifact(table, call) ==
  LET existing == get_cached_artifact(table, call.document_id, call.artifact_type,
                                      call.key, call.inputs)
  IN  IF existing # {}
      THEN { [ table |-> table, artifact |-> e ] : e \in existing }
      ELSE { [ table |-> Append(table, NewArtifact(table, call)),
               artifact |-> NewArtifact(table, call) ] }

InitStore ==
  /\ pc = "store_artifact"
  /\ document = [texts |-> <<>>, toc |-> 0, running |-> NoText]
  /\ settings = [ headers_mode |-> "llm_full", headers_llm_strict |-> FALSE,
                  header_locate_use_embeddings |-> FALSE ]
  /\ session = TRUE
  /\ lines = <<>>
  /\ llm_headers = <<>>
  /\ located_headers = <<>>
  /\ sections = <<>>
  /\ mode_used = "llm_full"
  /\ messages = <<>>
  /\ trace = {}
  /\ artifact = NoArtifact
  /\ outcome = "pending"
  /\ spans = <<>>
  /\ llm_response = "none"
  /\ error = "none"
  /\ rows = <<>>
  /\ tracer = TRUE
  /\ raw_text = <<>>
  /\ cleaned = <<>>
  /\ llm_service = NewLLMService
  /\ simple_headers_state = NoSimpleHeaders
  /\ embeddings_cache = NoEmbeddings
  /\ repair = NoRepair
  /\ first_headers = NoFirst
  /\ calls = 0
  /\ llm_result = NoResult
  /\ cache_dir = NoFiles

\* One call of store_artifact that returns: artifact holds the row returned.
StoreArtifactCall ==
  /\ pc = "store_artifact"
  /\ \E call \in ArtifactCalls :
       \E result \in store_artifact(rows, call) :
         /\ Len(result.table) <= MaxRows
         /\ rows' = result.table
         /\ artifact' = result.artifact
  /\ outcome' = "returned"
  /\ error' = "none"
  /\ UNCHANGED << pc, document, settings, session, lines, llm_headers, located_headers, sections,
                  mode_used, messages, trace, spans, llm_response, tracer,
                  raw_text, cleaned, llm_service, cache_dir, llm_result, calls, first_headers, repair, embeddings_cache, simple_headers_state >>

\* One call whose commit raises: no row is added.
StoreArtifactRaises ==
  /\ pc = "store_artifact"
  /\ \E call \in ArtifactCalls :
       get_cached_artifact(rows, call.document_id, call.artifact_type, call.key, call.inputs) = {}
  /\ outcome' = "raised"
  /\ error' = "SQLAlchemyError"
  /\ UNCHANGED << pc, document, settings, session, lines, llm_headers, located_headers, sections,
                  mode_used, messages, trace, artifact, spans, llm_response, rows, tracer,
                  raw_text, cleaned, llm_service, cache_dir, llm_result, calls, first_headers, repair, embeddings_cache, simple_headers_state >>

NextStore ==
  \/ StoreArtifactCall
  \/ StoreArtifactRaises

StoreSpec == InitStore /\ [][NextStore]_vars

\* ------------------------------------------- enforce_invariants_and_autofix
\* The invariant enforcer of the sequential aligner on its own.  The anchors
\* it receives are those the top-level and child searches can hand over: each
\* anchored number sits on an eligible line that bears it.  (With
\* HEADERS_MONOTONIC_STRICT switched off find_in_window accepts a child line at
\* or before the parent's, so a parent can arrive anchored after its child.)
\* located_headers holds the anchors as the list the aligner keeps beside them.
InitEnforce ==
  /\ pc = "seq_enforce"
  /\ \E t \in SeqsUpTo(LineTexts, MaxLines) :
       document = [texts |-> t, toc |-> 0, running |-> NoText]
  /\ settings = [headers_mode |-> "llm_full", headers_llm_strict |-> FALSE,
                 header_locate_use_embeddings |-> FALSE]
  /\ session = FALSE
  /\ lines = collect_line_metrics(document)
  /\ llm_headers \in { h \in SeqsUpTo(OracleHeaders, MaxHeaders) :
                         \A i, j \in DOMAIN h : h[i].num = h[j].num => i = j }
  /\ \E S \in SUBSET { llm_headers[i].num : i \in DOMAIN llm_headers } \ {{}, {NoNumber}} :
       /\ NoNumber \notin S
       /\ \E pos \in [S -> { lines[i].gid : i \in DOMAIN lines }] :
            /\ \A n \in S : \E i \in DOMAIN lines :
                 /\ lines[i].gid = pos[n]
                 /\ SeqNumberMatch(lines[i], n)
                 /\ ~SeqIneligible(lines[i], detect_toc_pages(lines),
                                   detect_running_header_footer(lines))
            /\ located_headers = SequentialEntries(make_header_items(llm_headers), pos)
  /\ sections = <<>>
  /\ mode_used = "llm_full"
  /\ messages = <<>>
  /\ trace = {}
  /\ artifact = NoArtifact
  /\ outcome = "pending"
  /\ spans = <<>>
  /\ llm_response = "outline"
  /\ error = "none"
  /\ rows = <<>>
  /\ tracer = TRUE
  /\ raw_text = <<>>
  /\ cleaned = <<>>
  /\ llm_service = NewLLMService
  /\ simple_headers_state = NoSimpleHeaders
  /\ embeddings_cache = NoEmbeddings
  /\ repair = NoRepair
  /\ first_headers = NoFirst
  /\ calls = 0
  /\ llm_result = NoResult
  /\ cache_dir = NoFiles

\* align_headers_sequential from the anchors on: base windows, the enforcer,
\* the output list.
EnforceAnchors ==
  /\ pc = "seq_enforce"
  /\ located_headers' =
       AlignFromAnchors(lines, make_header_items(llm_headers),
                        [ n \in { located_headers[i].num : i \in DOMAIN located_headers } |->
                            (CHOOSE h \in { located_headers[i] : i \in DOMAIN located_headers } :
                               h.num = n).gid ],
                        detect_toc_pages(lines), detect_running_header_footer(lines),
                        HEADERS_FUZZY_THRESHOLD)
  /\ pc' = "seq_done"
  /\ UNCHANGED << document, settings, session, lines, llm_headers, sections, mode_used,
                  messages, trace, artifact, outcome, spans, llm_response, error, rows, tracer,
                  raw_text, cleaned, llm_service, cache_dir, llm_result, calls, first_headers, repair, embeddings_cache, simple_headers_state >>

NextEnforce == EnforceAnchors

EnforceSpec == InitEnforce /\ [][NextEnforce]_vars

\* ---------------------------------------------- headers_sequential.normalize
\* normalize on texts over a small alphabet: a digit, the space, the dot, the
\* confusable capital "I", the confusable small "l" and an ordinary letter;
\* "i" is what casefold makes of "I".  (No soft hyphen in the alphabet.)
MaxChars == 5
NormChars == {"1", " ", ".", "I", "l", "a"}
WordChars == {"1", "I", "l", "a", "i"}

\* \s* from position i on: the first position that holds no space.
RECURSIVE SkipSpaces(_, _)
SkipSpaces(s, i) == IF i <= Len(s) /\ s[i] = " " THEN SkipSpaces(s, i + 1) ELSE i

\* DOT_SPACE_RE.sub(r"\1.\2"): leftmost non-overlapping matches of
\* digit, spaces, dot, spaces, digit; both digits belong to the match.
RECURSIVE DOT_SPACE_RE_sub(_, _)
DOT_SPACE_RE_sub(s, i) ==
  IF i > Len(s) THEN <<>>
  ELSE LET dot == SkipSpaces(s, i + 1)
           last == SkipSpaces(s, dot + 1)
       IN  IF s[i] = "1" /\ dot <= Len(s) /\ s[dot] = "." /\ last <= Len(s) /\ s[last] = "1"
           THEN <<s[i], ".", s[last]>> \o DOT_SPACE_RE_sub(s, last + 1)
           ELSE <<s[i]>> \o DOT_SPACE_RE_sub(s, i + 1)

\* MULTISPACE_RE.sub(" "): every run of spaces becomes one space.
RECURSIVE MULTISPACE_RE_sub(_, _)
MULTISPACE_RE_sub(s, i) ==
  IF i > Len(s) THEN <<>>
  ELSE IF s[i] = " " THEN <<" ">> \o MULTISPACE_RE_sub(s, SkipSpaces(s, i))
  ELSE <<s[i]>> \o MULTISPACE_RE_sub(s, i + 1)

\* CONFUSABLE_NUM_RE.sub("1"): after a digit, spaces, "I" or "l", spaces, and
\* then a dot or a space must follow (the greedy spaces give one back when
\* no dot follows them).
RECURSIVE CONFUSABLE_NUM_RE_sub(_, _)
CONFUSABLE_NUM_RE_sub(s, i) ==
  IF i > Len(s) THEN <<>>
  ELSE LET letter == SkipSpaces(s, i)
           after == SkipSpaces(s, letter + 1)
           stop == IF after <= Len(s) /\ s[after] = "." THEN after - 1
                   ELSE IF after > letter + 1 THEN after - 2
                   ELSE 0
       IN  IF i > 1 /\ s[i - 1] = "1" /\ letter <= Len(s) /\ s[letter] \in {"I", "l"} /\ stop # 0
           THEN <<"1">> \o CONFUSABLE_NUM_RE_sub(s, stop + 1)
           ELSE <<s[i]>> \o CONFUSABLE_NUM_RE_sub(s, i + 1)

\* ALPHA_ONE_RE.sub("1"): after a letter that starts a word, spaces and an
\* "I" or "l" that ends a word.
RECURSIVE ALPHA_ONE_RE_sub(_, _)
ALPHA_ONE_RE_sub(s, i) ==
  IF i > Len(s) THEN <<>>
  ELSE LET letter == SkipSpaces(s, i)
       IN  IF /\ i > 1 /\ s[i - 1] \in {"I", "l", "a", "i"}
              /\ (i = 2 \/ s[i - 2] \notin WordChars)
              /\ letter <= Len(s) /\ s[letter] \in {"I", "l"}
              /\ (letter = Len(s) \/ s[letter + 1] \notin WordChars)
           THEN <<"1">> \o ALPHA_ONE_RE_sub(s, letter + 1)
           ELSE <<s[i]>> \o ALPHA_ONE_RE_sub(s, i + 1)

\* normalize(value, confusables): the substitutions in the order of the code,
\* then strip() and casefold().
normalize(text, confusables) ==
  LET spaced == MULTISPACE_RE_sub(DOT_SPACE_RE_sub(text, 1), 1)
      folded == IF confusables
                THEN ALPHA_ONE_RE_sub(CONFUSABLE_NUM_RE_sub(spaced, 1), 1)
                ELSE spaced
      first == SkipSpaces(folded, 1)
      last == CHOOSE k \in 0..Len(folded) :
                /\ k = 0 \/ folded[k] # " "
                /\ \A j \in (k + 1)..Len(folded) : folded[j] = " "
      stripped == IF first > last THEN <<>> ELSE SubSeq(folded, first, last)
  IN  [ k \in DOMAIN stripped |-> IF stripped[k] = "I" THEN "i" ELSE stripped[k] ]

InitNorm ==
  /\ pc = "normalize"
  /\ document = [texts |-> <<>>, toc |-> 0, running |-> NoText]
  /\ settings \in [ confusables : BOOLEAN ]
  /\ session = FALSE
  /\ lines = <<>>
  /\ llm_headers = <<>>
  /\ located_headers = <<>>
  /\ sections = <<>>
  /\ mode_used = "llm_full"
  /\ messages = <<>>
  /\ trace = {}
  /\ artifact = NoArtifact
  /\ outcome = "pending"
  /\ spans = <<>>
  /\ llm_response = "none"
  /\ error = "none"
  /\ rows = <<>>
  /\ tracer = FALSE
  /\ raw_text \in SeqsUpTo(NormChars, MaxChars)
  /\ cleaned = raw_text
  /\ llm_service = NewLLMService
  /\ simple_headers_state = NoSimpleHeaders
  /\ embeddings_cache = NoEmbeddings
  /\ repair = NoRepair
  /\ first_headers = NoFirst
  /\ calls = 0
  /\ llm_result = NoResult
  /\ cache_dir = NoFiles

\* One call of normalize on the text as it stands (the first call on the
\* given text, the second on the result of the first).
Normalize ==
  /\ pc \in {"normalize", "renormalize"}
  /\ cleaned' = normalize(cleaned, settings.confusables)
  /\ pc' = IF pc = "normalize" THEN "renormalize" ELSE "norm_done"
  /\ UNCHANGED << document, settings, session, lines, llm_headers, located_headers, sections,
                  mode_used, messages, trace, artifact, outcome, spans, llm_response, error,
                  rows, tracer, raw_text, llm_service, cache_dir, llm_result, calls, first_headers, repair, embeddings_cache, simple_headers_state >>

NextNorm == Normalize

NormSpec == InitNorm /\ [][NextNorm]_vars

\* ------------------------------------------------------ LLMService.generate
\* The clock counts ticks of 15 seconds: the cool-down of 30 s is two ticks.
MaxTime == 4
cooldown_ticks == 2
max_retries == 2
circuit_threshold == 3
CacheKeys == {"outline", "specs"}

\* _register_failure
register_failure(svc, trip) ==
  IF trip \/ svc.failure_count + 1 >= circuit_threshold
  THEN [svc EXCEPT !.circuit_open_until = svc.now + cooldown_ticks, !.failure_count = 0]
  ELSE [svc EXCEPT !.failure_count = @ + 1]

\* _reset_failures
reset_failures(svc) == [svc EXCEPT !.failure_count = 0, !.circuit_open_until = -1]

InitBreaker ==
  /\ pc = "generate"
  /\ document = [texts |-> <<>>, toc |-> 0, running |-> NoText]
  /\ settings = [headers_mode |-> "llm_full", headers_llm_strict |-> FALSE,
                 header_locate_use_embeddings |-> FALSE]
  /\ session = FALSE
  /\ lines = <<>>
  /\ llm_headers = <<>>
  /\ located_headers = <<>>
  /\ sections = <<>>
  /\ mode_used = "llm_full"
  /\ messages = <<>>
  /\ trace = {}
  /\ artifact = NoArtifact
  /\ outcome = "pending"
  /\ spans = <<>>
  /\ llm_response = "none"
  /\ error = "none"
  /\ rows = <<>>
  /\ tracer = FALSE
  /\ raw_text = <<>>
  /\ cleaned = <<>>
  /\ llm_service = NewLLMService
  /\ simple_headers_state = NoSimpleHeaders
  /\ embeddings_cache = NoEmbeddings
  /\ repair = NoRepair
  /\ first_headers = NoFirst
  /\ calls = 0
  /\ llm_result = NoResult
  /\ cache_dir = NoFiles

\* generate, up to the retry loop (for a non-empty message list): an open
\* circuit raises LLMCircuitOpenError, a cached response is returned, else
\* the retry loop is entered.
Generate ==
  /\ llm_service.phase = "idle"
  /\ \E key \in CacheKeys :
       llm_service' =
         [ llm_service EXCEPT
             !.key = key,
             !.toggle = ~@,
             !.attempt = 0,
             !.all_retryable = TRUE,
             !.exhausted_at = IF @ >= 0 /\ llm_service.now >= @ + cooldown_ticks THEN -1 ELSE @,
             !.outcome = IF /\ llm_service.circuit_open_until # -1
                            /\ llm_service.now < llm_service.circuit_open_until
                         THEN "LLMCircuitOpenError"
                         ELSE IF key \in llm_service.cache THEN "cached" ELSE "pending",
             !.phase = IF \/ /\ llm_service.circuit_open_until # -1
                             /\ llm_service.now < llm_service.circuit_open_until
                          \/ key \in llm_service.cache
                       THEN "idle" ELSE "attempt" ]
  /\ UNCHANGED << pc, document, settings, session, lines, llm_headers, located_headers, sections,
                  mode_used, messages, trace, artifact, outcome, spans, llm_response, error,
                  rows, tracer, raw_text, cleaned, cache_dir, llm_result, calls, first_headers, repair, embeddings_cache, simple_headers_state >>

\* One pass of the retry loop: the transport is invoked and raises a
\* retryable error, raises another provider error, answers without the fence,
\* or answers well.
Attempt ==
  /\ llm_service.phase = "attempt"
  /\ \E r \in {"retryable", "provider_error", "missing_fence", "ok"} :
       LET attempted == [llm_service EXCEPT !.attempt = @ + 1]
           last == attempted.attempt > max_retries
       IN  llm_service' =
             CASE r = "retryable" ->
                    IF last
                    THEN [ register_failure(attempted, FALSE) EXCEPT
                             !.phase = "idle", !.outcome = "LLMRetryableError",
                             !.exhausted_at = IF llm_service.all_retryable
                                              THEN llm_service.now ELSE -1 ]
                    ELSE register_failure(attempted, FALSE)
               [] r = "provider_error" ->
                    [ register_failure(attempted, TRUE) EXCEPT
                        !.phase = "idle", !.outcome = "LLMProviderError", !.exhausted_at = -1 ]
               [] r = "missing_fence" ->
                    IF last
                    THEN [ register_failure(reset_failures(attempted), TRUE) EXCEPT
                             !.phase = "idle", !.outcome = "LLMProviderError",
                             !.all_retryable = FALSE, !.exhausted_at = -1 ]
                    ELSE [ reset_failures(attempted) EXCEPT !.all_retryable = FALSE ]
               [] r = "ok" ->
                    [ reset_failures(attempted) EXCEPT
                        !.cache = @ \cup {llm_service.key},
                        !.phase = "idle", !.outcome = "returned",
                        !.all_retryable = FALSE, !.exhausted_at = -1 ]
  /\ UNCHANGED << pc, document, settings, session, lines, llm_headers, located_headers, sections,
                  mode_used, messages, trace, artifact, outcome, spans, llm_response, error,
                  rows, tracer, raw_text, cleaned, cache_dir, llm_result, calls, first_headers, repair, embeddings_cache, simple_headers_state >>

\* Time passes: between two calls, while the transport is waited for, or in
\* the back-off sleep between two attempts.
Tick ==
  /\ llm_service.now < MaxTime
  /\ llm_service' = [llm_service EXCEPT !.now = @ + 1]
  /\ UNCHANGED << pc, document, settings, session, lines, llm_headers, located_headers, sections,
                  mode_used, messages, trace, artifact, outcome, spans, llm_response, error,
                  rows, tracer, raw_text, cleaned, cache_dir, llm_result, calls, first_headers, repair, embeddings_cache, simple_headers_state >>

NextBreaker ==
  \/ Generate
  \/ Attempt
  \/ Tick

BreakerSpec == InitBreaker /\ [][NextBreaker]_vars

\* ----------------------------------------------------- get_headers_llm_full
MaxParts == 2
MaxReplyHeaders == 2
MaxCalls == 4

\* Headers as the model's reply lists them: the text may carry surrounding
\* blanks or differ in case only, the number may be null, the level may be
\* missing (0).
RawTexts == {"Alpha", "ALPHA", " Beta", ""}
RawHeaders ==
  { h \in [text : RawTexts, number : {"null", "1"}, level : {0, 2}] :
      /\ (h.number = "null") <=> (h.text \in {" Beta", ""})
      /\ (h.level = 0) <=> (h.text \in {"ALPHA", " Beta"}) }

\* str.strip and str.lower on the texts above.
strip(t) == IF t = " Beta" THEN "Beta" ELSE t
lower(t) ==
  CASE t = "Alpha" -> "alpha"
    [] t = "ALPHA" -> "alpha"
    [] t = "Beta" -> "beta"
    [] OTHER -> t

\* The de-duplication loop: keyed on (text.lower(), number.lower()), empty
\* texts dropped, the level defaulting to 1.
RECURSIVE dedupe(_, _, _)
dedupe(merged, k, deduped) ==
  IF k > Len(merged) THEN deduped
  ELSE IF strip(merged[k].text) = ""
          \/ \E j \in DOMAIN deduped :
                /\ lower(deduped[j].text) = lower(strip(merged[k].text))
                /\ deduped[j].number = merged[k].number
       THEN dedupe(merged, k + 1, deduped)
       ELSE dedupe(merged, k + 1,
                   Append(deduped, [text |-> strip(merged[k].text),
                                    number |-> merged[k].number,
                                    level |-> IF merged[k].level = 0 THEN 1 ELSE merged[k].level]))

InitLlmFull ==
  /\ pc = "llm_full"
  /\ document = [texts |-> <<>>, toc |-> 0, running |-> NoText]
  /\ settings = [headers_mode |-> "llm_full", headers_llm_strict |-> FALSE,
                 header_locate_use_embeddings |-> FALSE]
  /\ session = FALSE
  /\ lines = <<>>
  /\ llm_headers = <<>>
  /\ located_headers = <<>>
  /\ sections = <<>>
  /\ mode_used = "llm_full"
  /\ messages = <<>>
  /\ trace = {}
  /\ artifact = NoArtifact
  /\ outcome = "pending"
  /\ spans = <<>>
  /\ llm_response = "none"
  /\ error = "none"
  /\ rows = <<>>
  /\ tracer = FALSE
  /\ raw_text = <<>>
  /\ cleaned = <<>>
  /\ llm_service = NewLLMService
  /\ simple_headers_state = NoSimpleHeaders
  /\ embeddings_cache = NoEmbeddings
  /\ repair = NoRepair
  /\ first_headers = NoFirst
  /\ calls = 0
  /\ llm_result = NoResult
  /\ cache_dir = NoFiles

\* get_headers_llm_full(lines, doc_hash): an existing cache file whose
\* "headers" is a list is returned as that list; otherwise one chat call is
\* made per part, the replies are merged and de-duplicated, the cache file is
\* written and an LLMFullHeadersResult is returned.  failed_part > 0: the
\* chat call of that part raises or its reply has no fenced JSON.
GetHeadersLlmFull ==
  /\ pc = "llm_full"
  /\ calls + MaxParts <= MaxCalls
  /\ \E doc_hash \in DocHashes, parts \in 1..MaxParts, failed_part \in 0..MaxParts,
        merged \in SeqsUpTo(RawHeaders, MaxReplyHeaders) :
       /\ failed_part <= parts
       /\ IF cache_dir[doc_hash].exists
          THEN /\ llm_result' = [form |-> "list", doc_hash |-> doc_hash,
                                 headers |-> cache_dir[doc_hash].headers]
               /\ UNCHANGED << calls, cache_dir, first_headers >>
          ELSE IF failed_part > 0
          THEN /\ calls' = calls + failed_part
               /\ llm_result' = [form |-> "raised", doc_hash |-> doc_hash]
               /\ UNCHANGED << cache_dir, first_headers >>
          ELSE /\ calls' = calls + parts
               /\ cache_dir' = [cache_dir EXCEPT ![doc_hash] =
                                  [exists |-> TRUE, headers |-> dedupe(merged, 1, <<>>)]]
               /\ llm_result' = [form |-> "LLMFullHeadersResult", doc_hash |-> doc_hash,
                                 headers |-> dedupe(merged, 1, <<>>)]
               /\ first_headers' = [first_headers EXCEPT ![doc_hash] = llm_result']
  /\ pc' = "llm_full_done"
  /\ UNCHANGED << document, settings, session, lines, llm_headers, located_headers, sections,
                  mode_used, messages, trace, artifact, outcome, spans, llm_response, error,
                  rows, tracer, raw_text, cleaned, llm_service, repair, embeddings_cache, simple_headers_state >>

\* The caller takes the result and makes its next call.
NextCall ==
  /\ pc = "llm_full_done"
  /\ pc' = "llm_full"
  /\ UNCHANGED << document, settings, session, lines, llm_headers, located_headers, sections,
                  mode_used, messages, trace, artifact, outcome, spans, llm_response, error,
                  rows, tracer, raw_text, cleaned, llm_service, cache_dir, llm_result, calls,
                  first_headers, repair, embeddings_cache, simple_headers_state >>

NextLlmFull ==
  \/ GetHeadersLlmFull
  \/ NextCall

LlmFullSpec == InitLlmFull /\ [][NextLlmFull]_vars

\* -------------------------------------------------------- header_align_bp.py
MaxBestLines == 4
MaxBestHeaders == 3

\* Texts of the lines and outline entries: "1 A", "1.1 D", "1.1.1 E".  Every
\* text has six characters or more.
BestLineTexts ==
  { [num |-> <<1>>, ttl |-> 1], [num |-> <<1, 1>>, ttl |-> 3], [num |-> <<1, 1, 1>>, ttl |-> 5] }
BestHeaders ==
  { [num |-> <<1>>, ttl |-> 1, level |-> 1],
    [num |-> <<1, 1>>, ttl |-> 3, level |-> 2], [num |-> <<1, 1, 1>>, ttl |-> 5, level |-> 3] }

\* _compile_num_regex: the line starts with exactly this number (no further
\* dotted component after it).
BestNumberMatch(l, num) == l.num = num

\* header_align_bp.detect_toc_pages
best_detect_toc_pages(L) ==
  { p \in { L[i].page : i \in DOMAIN L } :
      \/ Cardinality({ i \in DOMAIN L : L[i].page = p /\ L[i].is_toc }) >= HEADERS_TOC_MIN_DOT_LEADERS
      \/ Cardinality({ i \in DOMAIN L : L[i].page = p /\ L[i].num # NoNumber })
           >= HEADERS_TOC_MIN_SECTION_TOKENS }

\* detect_running_headers: a text is counted once for each top band and each
\* bottom band it lies in, over all pages.
detect_running_headers(L) ==
  LET same(i) == { j \in DOMAIN L : L[j].page = L[i].page }
      place(i) == Cardinality({ j \in same(i) : L[j].gid < L[i].gid })
      top(i) == IF place(i) < HEADERS_BAND_LINES THEN 1 ELSE 0
      bottom(i) == IF place(i) >= Cardinality(same(i)) - HEADERS_BAND_LINES THEN 1 ELSE 0
      RECURSIVE Count(_, _)
      Count(t, i) ==
        IF i > Len(L) THEN 0
        ELSE (IF L[i].num = t.num /\ L[i].ttl = t.ttl THEN top(i) + bottom(i) ELSE 0) + Count(t, i + 1)
  IN  { t \in BestLineTexts : Count(t, 1) >= HEADERS_RUNNER_MIN_PAGES }

\* Anchors are kept as the dict keeps them: pairs in insertion order.
BestHas(anchors, n) == \E i \in DOMAIN anchors : anchors[i].num = n
BestAt(anchors, n) == anchors[CHOOSE i \in DOMAIN anchors : anchors[i].num = n].gid
BestPut(anchors, n, g) ==
  IF BestHas(anchors, n)
  THEN [ i \in DOMAIN anchors |-> IF anchors[i].num = n THEN [num |-> n, gid |-> g] ELSE anchors[i] ]
  ELSE Append(anchors, [num |-> n, gid |-> g])

\* parent / parent_of
best_parent(n) == IF Len(n) > 1 THEN SubSeq(n, 1, Len(n) - 1) ELSE NoNumber

\* The score of a line for a header, in hundredths (the lines carry no font
\* data, so the typography term is 0).
BestFuzzy(l, h) ==
  IF BestNumberMatch(l, h.num) THEN token_set_ratio(l, h.num, h.ttl)
  ELSE token_set_ratio(l, NoNumber, h.ttl)
BestScore(L, l, h, toc_pages, running_headers, window_start, window_end) ==
  60 * BestFuzzy(l, h)
  + (IF in_page_band(L, l, HEADERS_BAND_LINES) THEN -25 ELSE 1250)
  - (IF l.page \in toc_pages THEN 45 ELSE 0)
  - (IF [num |-> l.num, ttl |-> l.ttl] \in running_headers THEN 50000 ELSE 0)
  + (IF window_start <= l.gid /\ l.gid < window_end THEN 500 ELSE 0)

\* One iteration of the per-header loop: the line chosen for header h, 0 if
\* none.
BestChoose(L, h, prev_idx, toc_pages, running_headers, window_start, window_end) ==
  LET candidates == { i \in DOMAIN L :
                        /\ HEADERS_AFTER_ANCHOR_ONLY => L[i].gid > prev_idx
                        /\ BestFuzzy(L[i], h) >= (IF BestNumberMatch(L[i], h.num)
                                                  THEN HEADERS_FUZZY_NUMTITLE
                                                  ELSE HEADERS_FUZZY_TITLE_ONLY) }
      in_window == { i \in candidates : window_start <= L[i].gid /\ L[i].gid < window_end }
      pool == IF in_window # {} THEN in_window ELSE candidates
      Score(i) == BestScore(L, L[i], h, toc_pages, running_headers, window_start, window_end)
  IN  IF candidates = {} THEN 0
      ELSE CHOOSE i \in pool : \A j \in pool :
             Score(j) < Score(i) \/ (Score(j) = Score(i) /\ L[j].gid <= L[i].gid)

\* The window in which header h is looked for first.
BestWindowOf(h, anchors, prev_idx, windows, final_idx) ==
  IF best_parent(h.num) \in DOMAIN windows THEN windows[best_parent(h.num)]
  ELSE [ start |-> IF best_parent(h.num) # NoNumber /\ BestHas(anchors, best_parent(h.num))
                   THEN Max(prev_idx + 1, BestAt(anchors, best_parent(h.num)) + 1)
                   ELSE prev_idx + 1,
         end |-> final_idx ]

\* The end of one iteration of the per-header loop, with the line chosen for
\* header h (0: none): the anchor, prev_idx and, for a level-1 number, its
\* window up to the end of the document.
BestCommit(L, h, st, final_idx, chosen) ==
  IF h.num = NoNumber \/ chosen = 0
  THEN [ st EXCEPT
           !.windows = IF h.num # NoNumber /\ Len(h.num) = 1 /\ BestHas(st.anchors, h.num)
                       THEN (h.num :> [start |-> BestAt(st.anchors, h.num), end |-> final_idx]) @@ @
                       ELSE @,
           !.k = @ + 1 ]
  ELSE [ st EXCEPT
           !.anchors = BestPut(@, h.num, L[chosen].gid),
           !.prev_idx = L[chosen].gid,
           !.windows = IF Len(h.num) = 1
                       THEN (h.num :> [start |-> L[chosen].gid, end |-> final_idx]) @@ @
                       ELSE @,
           !.k = @ + 1 ]

\* The windows of the level-1 numbers once all headers are anchored: from the
\* anchor to the anchor of the next level-1 number in numeric order.
BestTopWindows(anchors, windows, final_idx) ==
  LET top == { anchors[i].num : i \in { j \in DOMAIN anchors : Len(anchors[j].num) = 1 } }
      After(n) == { m \in top : TupleLess(n, m) }
      Following(n) == CHOOSE m \in After(n) : \A o \in After(n) : o = m \/ TupleLess(m, o)
  IN  [ n \in top |->
          [ start |-> BestAt(anchors, n),
            end |-> IF After(n) = {} THEN final_idx ELSE BestAt(anchors, Following(n)) ] ] @@ windows

\* Parent phase of one round of the repair loop: parents in the order their
\* first child appears among the anchors; a parent anchored after its
\* earliest child moves to the last line before that child bearing its number.
RECURSIVE BestParents(_, _, _, _)
BestParents(L, anchors, k, toc_pages) ==
  IF k > Len(anchors) THEN anchors
  ELSE LET p == best_parent(anchors[k].num)
           first == \A j \in 1..(k - 1) : best_parent(anchors[j].num) # p
           earliest_child == SetMin({ anchors[i].gid : i \in { j \in DOMAIN anchors :
                                                      best_parent(anchors[j].num) = p } })
           candidates == { i \in DOMAIN L : /\ L[i].gid < earliest_child
                                            /\ BestNumberMatch(L[i], p)
                                            /\ L[i].page \notin toc_pages }
           best == CHOOSE i \in candidates : \A j \in candidates : L[j].gid <= L[i].gid
       IN  IF /\ p # NoNumber /\ first /\ BestHas(anchors, p)
              /\ BestAt(anchors, p) > earliest_child /\ candidates # {}
           THEN BestParents(L, BestPut(anchors, p, L[best].gid), k + 1, toc_pages)
           ELSE BestParents(L, anchors, k + 1, toc_pages)

\* Child phase: a number anchored outside the window of its parent moves to
\* the first line of the window bearing its number.
BestChildren(L, anchors, windows) ==
  [ k \in DOMAIN anchors |->
      LET p == best_parent(anchors[k].num)
          hits == { i \in DOMAIN L : /\ windows[p].start <= L[i].gid /\ L[i].gid < windows[p].end
                                     /\ BestNumberMatch(L[i], anchors[k].num) }
          first == CHOOSE i \in hits : \A j \in hits : i <= j
      IN  IF /\ p \in DOMAIN windows
             /\ (anchors[k].gid < windows[p].start \/ anchors[k].gid >= windows[p].end)
             /\ hits # {}
          THEN [num |-> anchors[k].num, gid |-> L[first].gid]
          ELSE anchors[k] ]

\* The rebuilt dict of the dedupe step: the numbers in sorted order (a dict
\* holds each number once, so nothing is dropped).
BestNumLess(a, b) == TupleLess(a.num, b.num)
BestDeduped(anchors) == SortedBy(anchors, BestNumLess)

\* The final monotonic guard over the results sorted by global index: a child
\* lying before its parent moves to the first line after the parent bearing
\* its number.
RECURSIVE BestGuard(_, _, _, _, _)
BestGuard(L, results, k, positions, toc_pages) ==
  IF k > Len(results) THEN results
  ELSE LET n == results[k].num
           p == best_parent(n)
           candidates == { i \in DOMAIN L : /\ L[i].gid > positions[p]
                                            /\ BestNumberMatch(L[i], n)
                                            /\ L[i].page \notin toc_pages }
           replacement == CHOOSE i \in candidates : \A j \in candidates : L[i].gid <= L[j].gid
       IN  IF p = NoNumber \/ p \notin DOMAIN positions THEN BestGuard(L, results, k + 1, positions, toc_pages)
           ELSE IF positions[p] <= results[k].gid \/ candidates = {}
             THEN BestGuard(L, results, k + 1, positions, toc_pages)
           ELSE BestGuard(L, [results EXCEPT ![k].gid = L[replacement].gid], k + 1,
                          [positions EXCEPT ![n] = L[replacement].gid], toc_pages)

BestResults(L, H, anchors) ==
  LET meta(n) == CHOOSE h \in { H[i] : i \in DOMAIN H } : h.num = n
      results == SortedBy([ i \in DOMAIN anchors |->
                             [ num |-> anchors[i].num, ttl |-> meta(anchors[i].num).ttl,
                               level |-> meta(anchors[i].num).level, gid |-> anchors[i].gid ] ],
                          GidLess)
      positions == [ n \in { anchors[i].num : i \in DOMAIN anchors } |-> BestAt(anchors, n) ]
  IN  IF HEADERS_FINAL_MONOTONIC_GUARD
      THEN SortedBy(BestGuard(L, results, 1, positions, best_detect_toc_pages(L)), GidLess)
      ELSE results

BestOutlines ==
  { h \in SeqsUpTo(BestHeaders, MaxBestHeaders) : \A i, j \in DOMAIN h : i # j => h[i] # h[j] }

InitBest ==
  /\ pc = "best_align"
  /\ document \in { [texts |-> t, toc |-> 0, running |-> NoText] : t \in SeqsUpTo(BestLineTexts, MaxBestLines) }
  /\ settings = [headers_mode |-> "llm_full", headers_llm_strict |-> FALSE,
                 header_locate_use_embeddings |-> FALSE]
  /\ session = FALSE
  /\ lines = collect_line_metrics(document)
  /\ llm_headers \in BestOutlines
  /\ located_headers = <<>>
  /\ sections = <<>>
  /\ mode_used = "llm_full"
  /\ messages = <<>>
  /\ trace = {}
  /\ artifact = NoArtifact
  /\ outcome = "pending"
  /\ spans = <<>>
  /\ llm_response = "outline"
  /\ error = "none"
  /\ rows = <<>>
  /\ tracer = FALSE
  /\ raw_text = <<>>
  /\ cleaned = <<>>
  /\ llm_service = NewLLMService
  /\ simple_headers_state = NoSimpleHeaders
  /\ embeddings_cache = NoEmbeddings
  /\ repair = [anchors |-> <<>>, windows |-> EmptyMap, changed |-> FALSE, prev_idx |-> -1, k |-> 1]
  /\ first_headers = NoFirst
  /\ calls = 0
  /\ llm_result = NoResult
  /\ cache_dir = NoFiles

\* One iteration of the per-header loop of align_headers_best.
BestAnchorHeader ==
  /\ pc = "best_align"
  /\ repair.k <= Len(llm_headers)
  /\ repair' = LET final_idx == IF lines = <<>> THEN 0 ELSE lines[Len(lines)].gid + 1
                   w == BestWindowOf(llm_headers[repair.k], repair.anchors, repair.prev_idx,
                                     repair.windows, final_idx)
               IN  BestCommit(lines, llm_headers[repair.k], repair, final_idx,
                              BestChoose(lines, llm_headers[repair.k], repair.prev_idx,
                                         best_detect_toc_pages(lines), detect_running_headers(lines),
                                         w.start, w.end))
  /\ pc' = pc
  /\ UNCHANGED << document, settings, session, lines, llm_headers, located_headers, sections,
                  mode_used, messages, trace, artifact, outcome, spans, llm_response, error,
                  rows, tracer, raw_text, cleaned, llm_service, cache_dir, llm_result, calls,
                  first_headers, embeddings_cache, simple_headers_state >>

\* After the per-header loop: the windows of the level-1 numbers, then the
\* repair loop is entered.
BestWindows ==
  /\ pc = "best_align"
  /\ repair.k > Len(llm_headers)
  /\ repair' = [ repair EXCEPT
                   !.windows = BestTopWindows(repair.anchors, repair.windows,
                                              IF lines = <<>> THEN 0 ELSE lines[Len(lines)].gid + 1) ]
  /\ pc' = "best_parents"
  /\ UNCHANGED << document, settings, session, lines, llm_headers, located_headers, sections,
                  mode_used, messages, trace, artifact, outcome, spans, llm_response, error,
                  rows, tracer, raw_text, cleaned, llm_service, cache_dir, llm_result, calls,
                  first_headers, embeddings_cache, simple_headers_state >>

\* First half of a round of `while changed`: the parents.
BestReanchorParents ==
  /\ pc = "best_parents"
  /\ repair' = [ repair EXCEPT
                   !.anchors = BestParents(lines, repair.anchors, 1, best_detect_toc_pages(lines)),
                   !.changed = BestParents(lines, repair.anchors, 1, best_detect_toc_pages(lines))
                               # repair.anchors ]
  /\ pc' = "best_children"
  /\ UNCHANGED << document, settings, session, lines, llm_headers, located_headers, sections,
                  mode_used, messages, trace, artifact, outcome, spans, llm_response, error,
                  rows, tracer, raw_text, cleaned, llm_service, cache_dir, llm_result, calls,
                  first_headers, embeddings_cache, simple_headers_state >>

\* Second half of the round: the children and the dedupe step; the loop
\* goes round again when the round changed an anchor.
BestRelocateChildren ==
  /\ pc = "best_children"
  /\ repair' = [ repair EXCEPT
                   !.anchors = BestDeduped(BestChildren(lines, repair.anchors, repair.windows)),
                   !.changed = repair.changed
                               \/ BestChildren(lines, repair.anchors, repair.windows) # repair.anchors ]
  /\ pc' = IF repair'.changed THEN "best_parents" ELSE "best_finish"
  /\ UNCHANGED << document, settings, session, lines, llm_headers, located_headers, sections,
                  mode_used, messages, trace, artifact, outcome, spans, llm_response, error,
                  rows, tracer, raw_text, cleaned, llm_service, cache_dir, llm_result, calls,
                  first_headers, embeddings_cache, simple_headers_state >>

\* The rest of align_headers_best: the result list and the final guard.
BestFinish ==
  /\ pc = "best_finish"
  /\ located_headers' = BestResults(lines, llm_headers, repair.anchors)
  /\ pc' = "best_done"
  /\ UNCHANGED << document, settings, session, lines, llm_headers, sections,
                  mode_used, messages, trace, artifact, outcome, spans, llm_response, error,
                  rows, tracer, raw_text, cleaned, llm_service, cache_dir, llm_result, calls,
                  first_headers, repair, embeddings_cache, simple_headers_state >>

NextBest ==
  \/ BestAnchorHeader
  \/ BestWindows
  \/ BestReanchorParents
  \/ BestRelocateChildren
  \/ BestFinish

\* The aligner runs on: every step that can be taken is taken.
BestSpec == InitBest /\ [][NextBest]_vars /\ WF_vars(NextBest)

\* ----------------------------------------------- EmbeddingsClient.embed_batch
\* Several runs (one EmbeddingsClient each) embed batches of texts over one
\* cache directory.  A cache file is absent, or present with the clients that
\* hold it open for writing (np.save writes to the final path: it creates or
\* truncates the file, then writes) and `complete` once a save has finished
\* with no other save under way.
MaxBatch == 2
Clients == {"run-a", "run-b"}
Texts == {"heading: A", "heading: B"}
AbsentFile == [exists |-> FALSE, complete |-> FALSE, writers |-> {}]

NewClient(batch) ==
  [ pc |-> "check", prepared |-> batch, index |-> 1, pending |-> <<>>, offset |-> 1,
    loaded |-> "none" ]

InitEmbed ==
  /\ pc = "embed"
  /\ embeddings_cache \in
       { [ files |-> [t \in Texts |-> AbsentFile], clients |-> c ] :
           c \in [Clients -> { NewClient(b) : b \in SeqsUpTo(Texts, MaxBatch) \ {<<>>} }] }
  /\ document = [texts |-> <<>>, toc |-> 0, running |-> NoText]
  /\ settings = [headers_mode |-> "llm_full", headers_llm_strict |-> FALSE,
                 header_locate_use_embeddings |-> TRUE]
  /\ session = FALSE
  /\ lines = <<>>
  /\ llm_headers = <<>>
  /\ located_headers = <<>>
  /\ sections = <<>>
  /\ mode_used = "llm_full"
  /\ messages = <<>>
  /\ trace = {}
  /\ artifact = NoArtifact
  /\ outcome = "pending"
  /\ spans = <<>>
  /\ llm_response = "none"
  /\ error = "none"
  /\ rows = <<>>
  /\ tracer = TRUE
  /\ raw_text = <<>>
  /\ cleaned = <<>>
  /\ llm_service = NewLLMService
  /\ simple_headers_state = NoSimpleHeaders
  /\ repair = NoRepair
  /\ first_headers = NoFirst
  /\ calls = 0
  /\ llm_result = NoResult
  /\ cache_dir = NoFiles

EmbedUnchanged ==
  UNCHANGED << pc, document, settings, session, lines, llm_headers, located_headers, sections,
               mode_used, messages, trace, artifact, outcome, spans, llm_response, error,
               rows, tracer, raw_text, cleaned, llm_service, cache_dir, llm_result, calls,
               first_headers, repair, simple_headers_state >>

\* embed_batch, first loop, `cache_path.exists()` for the text at index: a
\* text without cache file is pending; the loop ends after the last text.
EmbedCheck(c) ==
  LET st == embeddings_cache.clients[c]
      text == st.prepared[st.index]
  IN  /\ st.pc = "check"
      /\ embeddings_cache' = [embeddings_cache EXCEPT !.clients[c] =
           IF st.index > Len(st.prepared)
             THEN [st EXCEPT !.pc = IF st.pending = <<>> THEN "done" ELSE "provider"]
           ELSE IF embeddings_cache.files[text].exists
             THEN [st EXCEPT !.pc = "load"]
           ELSE [st EXCEPT !.pending = Append(@, text), !.index = @ + 1]]
      /\ EmbedUnchanged

\* embed_batch, first loop, `np.load(cache_path)`: a complete file is the
\* cached vector; a file that is gone or not fully written makes np.load
\* raise, the handler unlinks the path and the text is pending.
EmbedLoad(c) ==
  LET st == embeddings_cache.clients[c]
      text == st.prepared[st.index]
      file == embeddings_cache.files[text]
  IN  /\ st.pc = "load"
      /\ embeddings_cache' =
           IF file.exists /\ file.complete
           THEN [embeddings_cache EXCEPT
                   !.clients[c] = [st EXCEPT !.pc = "check", !.index = @ + 1, !.loaded = "complete"]]
           ELSE [embeddings_cache EXCEPT
                   !.files[text] = AbsentFile,
                   !.clients[c] = [st EXCEPT !.pc = "check", !.index = @ + 1,
                                             !.pending = Append(@, text),
                                             !.loaded = IF file.exists THEN "partial" ELSE "missing"]]
      /\ EmbedUnchanged

\* _embed_uncached: the provider returns one vector per pending text, or raises.
EmbedUncached(c) ==
  LET st == embeddings_cache.clients[c]
  IN  /\ st.pc = "provider"
      /\ \E raised \in BOOLEAN :
           embeddings_cache' = [embeddings_cache EXCEPT !.clients[c] =
             [st EXCEPT !.pc = IF raised THEN "raised" ELSE "store"]]
      /\ EmbedUnchanged

\* _store_cache, np.save opening the final path for writing: the file is
\* created, or truncated when it exists.
StoreCacheOpen(c) ==
  LET st == embeddings_cache.clients[c]
      text == st.pending[st.offset]
      file == embeddings_cache.files[text]
  IN  /\ st.pc = "store"
      /\ embeddings_cache' = [embeddings_cache EXCEPT
           !.files[text] = [exists |-> TRUE, complete |-> FALSE, writers |-> file.writers \cup {c}],
           !.clients[c] = [st EXCEPT !.pc = "write"]]
      /\ EmbedUnchanged

\* _store_cache, np.save writing the vector and closing the file; a file
\* unlinked in between stays gone.
StoreCacheClose(c) ==
  LET st == embeddings_cache.clients[c]
      text == st.pending[st.offset]
      file == embeddings_cache.files[text]
  IN  /\ st.pc = "write"
      /\ embeddings_cache' = [embeddings_cache EXCEPT
           !.files[text] = IF c \in file.writers
                           THEN [file EXCEPT !.writers = @ \ {c}, !.complete = (file.writers = {c})]
                           ELSE file,
           !.clients[c] = [st EXCEPT !.offset = @ + 1,
                                     !.pc = IF st.offset = Len(st.pending) THEN "done" ELSE "store"]]
      /\ EmbedUnchanged

NextEmbed ==
  \/ \E c \in Clients : EmbedCheck(c)
  \/ \E c \in Clients : EmbedLoad(c)
  \/ \E c \in Clients : EmbedUncached(c)
  \/ \E c \in Clients : StoreCacheOpen(c)
  \/ \E c \in Clients : StoreCacheClose(c)

EmbedSpec == InitEmbed /\ [][NextEmbed]_vars

\* ------------------------------------------------------- SimpleHeadersState
\* The in-memory cache of line metrics, on its own: any sequence of set and
\* get calls over a few document ids.
max_entries == 6
MaxDocuments == 7
DocumentIds == 1..MaxDocuments

Without(s, document_id) == SelectSeq(s, LAMBDA e : e # document_id)

\* OrderedDict.popitem(last=False) while the store is over its bound.
RECURSIVE popitem_while_over(_)
popitem_while_over(s) ==
  IF Len(s) > max_entries THEN popitem_while_over(Tail(s)) ELSE s

InitSimpleHeaders ==
  /\ pc = "simple_headers"
  /\ simple_headers_state = NoSimpleHeaders
  /\ document = [texts |-> <<>>, toc |-> 0, running |-> NoText]
  /\ settings = [headers_mode |-> "llm_full", headers_llm_strict |-> FALSE,
                 header_locate_use_embeddings |-> FALSE]
  /\ session = TRUE
  /\ lines = <<>>
  /\ llm_headers = <<>>
  /\ located_headers = <<>>
  /\ sections = <<>>
  /\ mode_used = "llm_full"
  /\ messages = <<>>
  /\ trace = {}
  /\ artifact = NoArtifact
  /\ outcome = "pending"
  /\ spans = <<>>
  /\ llm_response = "none"
  /\ error = "none"
  /\ rows = <<>>
  /\ tracer = TRUE
  /\ raw_text = <<>>
  /\ cleaned = <<>>
  /\ llm_service = NewLLMService
  /\ embeddings_cache = NoEmbeddings
  /\ repair = NoRepair
  /\ first_headers = NoFirst
  /\ calls = 0
  /\ llm_result = NoResult
  /\ cache_dir = NoFiles

SimpleHeadersUnchanged ==
  UNCHANGED << pc, document, settings, session, lines, llm_headers, located_headers, sections,
               mode_used, messages, trace, artifact, outcome, spans, llm_response, error,
               rows, tracer, raw_text, cleaned, llm_service, cache_dir, llm_result, calls,
               first_headers, repair, embeddings_cache >>

\* SimpleHeadersState.set: the entry is popped, stored anew at the end, and
\* entries are dropped from the front while the store is over its bound.
SimpleHeadersSet(document_id) ==
  /\ pc = "simple_headers"
  /\ \E stored \in { Append(Without(simple_headers_state.store, document_id), document_id) } :
       simple_headers_state' =
         [ store |-> popitem_while_over(stored),
           recency |-> SelectSeq(Append(Without(simple_headers_state.recency, document_id), document_id),
                                 LAMBDA d : \E i \in DOMAIN popitem_while_over(stored) :
                                              popitem_while_over(stored)[i] = d),
           result |-> "none",
           evicted |-> IF Len(stored) > max_entries THEN Head(stored) ELSE 0,
           spared |-> IF \/ simple_headers_state.spared = document_id
                         \/ (Len(stored) > max_entries /\ Head(stored) = simple_headers_state.spared)
                      THEN 0 ELSE simple_headers_state.spared ]
  /\ SimpleHeadersUnchanged

\* A get that returns the entry and leaves the order of the store alone.
SimpleHeadersGetInPlace(document_id) ==
  /\ pc = "simple_headers"
  /\ simple_headers_state' =
       IF \E i \in DOMAIN simple_headers_state.store : simple_headers_state.store[i] = document_id
       THEN [ simple_headers_state EXCEPT
                !.recency = Append(Without(@, document_id), document_id),
                !.result = "value", !.evicted = 0,
                !.spared = IF Head(simple_headers_state.store) = document_id /\ Len(simple_headers_state.store) > 1
                           THEN document_id ELSE @ ]
       ELSE [ simple_headers_state EXCEPT !.result = "None", !.evicted = 0 ]
  /\ SimpleHeadersUnchanged

\* SimpleHeadersState.get: None for an unknown document, else the entry is
\* moved to the end and returned.
SimpleHeadersGet(document_id) ==
  /\ pc = "simple_headers"
  /\ simple_headers_state' =
       IF \E i \in DOMAIN simple_headers_state.store : simple_headers_state.store[i] = document_id
       THEN [ simple_headers_state EXCEPT
                !.store = Append(Without(@, document_id), document_id),
                !.recency = Append(Without(@, document_id), document_id),
                !.result = "value", !.evicted = 0,
                !.spared = IF Head(simple_headers_state.store) = document_id /\ Len(simple_headers_state.store) > 1
                           THEN document_id ELSE @ ]
       ELSE [ simple_headers_state EXCEPT !.result = "None", !.evicted = 0 ]
  /\ SimpleHeadersUnchanged

NextSimpleHeaders ==
  \/ \E document_id \in DocumentIds : SimpleHeadersSet(document_id)
  \/ \E document_id \in DocumentIds : SimpleHeadersGet(document_id)

SimpleHeadersSpec == InitSimpleHeaders /\ [][NextSimpleHeaders]_vars

\* ------------------------------------------------------------------ claims
\* C1: in every result the pipeline returns, the final headers list is
\* strictly increasing in global_idx (no two headers share a line).
C1_HeadersStrictlyIncreasing ==
  outcome = "returned" =>
    \A i \in 1..(Len(located_headers) - 1) :
      located_headers[i].gid < located_headers[i + 1].gid

\* C2: every header of the final output whose parent (its number without the
\* last component) is anchored too lies strictly after that parent.
C2_ParentBeforeChild ==
  outcome = "returned" =>
    \A i, j \in DOMAIN located_headers :
      ( /\ Len(located_headers[i].num) > 1
        /\ located_headers[j].num = number_parent(located_headers[i].num) )
      => located_headers[j].gid < located_headers[i].gid

\* C3: two oracle headers that are both anchored keep their source order:
\* the one the oracle emitted first is anchored on the earlier line.
C3_SourceOrder ==
  LET AnchoredAs(i) == { k \in DOMAIN located_headers :
                           /\ located_headers[k].num = llm_headers[i].num
                           /\ located_headers[k].ttl = llm_headers[i].ttl }
  IN  outcome = "returned" =>
        \A i, j \in DOMAIN llm_headers :
          i < j =>
            \A a \in AnchoredAs(i), b \in AnchoredAs(j) :
              located_headers[a].gid < located_headers[b].gid

\* C4: in a run that aligned an oracle outline, no final header sits on a
\* line flagged is_toc or is_running, or lying on a TOC page, unless the
\* trace holds a last_occurrence decision for that header.
C4_NoFlaggedAnchor ==
  LET FlaggedGids == { lines[n].gid : n \in { m \in DOMAIN lines :
                         \/ lines[m].is_toc
                         \/ lines[m].is_running
                         \/ lines[m].page \in excluded_pages(document) } }
  IN  (outcome = "returned" /\ llm_headers # <<>>) =>
        \A k \in DOMAIN located_headers :
          located_headers[k].gid \in FlaggedGids =>
            \E e \in trace : e.method = "last_occurrence" /\ e.num = located_headers[k].num

\* C5: the section spans built from the final anchors tile the interval from
\* the first anchor to one past the last line: the first span starts at the
\* first anchor, each span ends where the next starts and none ends before
\* it starts, and the last span ends one past the last line.
C5_SpansPartition ==
  (pc = "done" /\ outcome = "returned" /\ located_headers # <<>>) =>
    /\ spans # <<>>
    /\ \A k \in DOMAIN located_headers : spans[1].start_global_idx <= located_headers[k].gid
    /\ \E k \in DOMAIN located_headers : spans[1].start_global_idx = located_headers[k].gid
    /\ \A k \in DOMAIN spans : spans[k].start_global_idx <= spans[k].end_global_idx
    /\ \A k \in 1..(Len(spans) - 1) : spans[k].end_global_idx = spans[k + 1].start_global_idx
    /\ spans[Len(spans)].end_global_idx = lines[Len(lines)].gid + 1

\* C6: every final header and every section start carries the global index
\* of a line of the input line stream.
C6_IndexesAreLines ==
  LET LineGids == { lines[i].gid : i \in DOMAIN lines }
  IN  /\ outcome = "returned" =>
           \A k \in DOMAIN located_headers : located_headers[k].gid \in LineGids
      /\ (pc = "done" /\ outcome = "returned") =>
           \A k \in DOMAIN spans : spans[k].start_global_idx \in LineGids

\* C7: a request whose oracle call failed ends with a returned result (no
\* exception reaches the caller) of mode llm_full_error, with no headers and
\* with a diagnostic message.
C7_OracleFailureRecovered ==
  (pc = "done" /\ llm_response \in OracleFailures) =>
    /\ outcome = "returned"
    /\ mode_used = "llm_full_error"
    /\ located_headers = <<>>
    /\ messages # <<>>

\* C8: on an empty line stream the pipeline does not return a result (it
\* surfaces the precondition error no_lines instead).
C8_EmptyLinesNotReturned ==
  outcome = "returned" => document.texts # <<>>

\* C9: in strict mode, an oracle response without a valid fenced JSON object
\* ends in an OutlineParseError with code empty_outline, not in an outline.
C9_NoFencedJsonIsOutlineParseError ==
  (pc = "done" /\ llm_response \in {"missing_fence", "invalid_json"}) =>
    /\ outcome = "raised"
    /\ error = "OutlineParseError(empty_outline)"

\* C10: a request whose vector locator failed on the embedding provider ends
\* with a returned result whose mode is not llm_full_error, its headers being
\* those of the lexical locator (after the sequence enforcement).
C10_VectorFailureRecovered ==
  (pc = "done" /\ Fallback("vector", "exception") \in trace) =>
    /\ outcome = "returned"
    /\ mode_used # "llm_full_error"

\* C11: a failing write of the result to the artifact cache never reaches the
\* caller as an exception (the result is returned all the same).
C11_CacheWriteFailureNotRaised ==
  ~(outcome = "raised" /\ error = "SQLAlchemyError")

\* C12: a request answered from the cache returns exactly the headers,
\* sections, mode and messages of the stored artifact, without an oracle call
\* and without any alignment or gap-fill decision.
C12_CacheHitVerbatim ==
  (outcome = "returned" /\ EndRun("cache") \in trace) =>
    /\ ResultBody = artifact
    /\ llm_response = "none"
    /\ llm_headers = <<>>
    /\ trace = {EndRun("cache")}

C12_Witness ==
  /\ outcome = "returned"
  /\ EndRun("cache") \in trace
  /\ artifact.headers # <<>>

\* C13: over any sequence of store_artifact calls, no two rows share
\* (document, artifact type, key, inputs hash), no existing row changes, and
\* a call whose tuple matches an existing row returns that row.
C13_FirstWriteWins ==
  [][ LET SameTuple(a, b) == /\ a.document_id = b.document_id
                             /\ a.artifact_type = b.artifact_type
                             /\ a.artifact_key = b.artifact_key
                             /\ a.sha_inputs = b.sha_inputs
      IN  /\ \A i \in DOMAIN rows : i \in DOMAIN rows' /\ rows'[i] = rows[i]
          /\ \A i, j \in DOMAIN rows' : SameTuple(rows'[i], rows'[j]) => i = j
          /\ artifact' # NoArtifact =>
                \A i \in DOMAIN rows : SameTuple(rows[i], artifact') => artifact' = rows[i]
    ]_vars

C13_Witness ==
  /\ Len(rows) >= 2
  /\ artifact = rows[1]
  /\ outcome = "returned"

\* C14: when the gap loop has ended, every line that begins with a number
\* skipped between two anchored siblings, and lies between them, has a
\* header of that number in the final list.
C14_GapsRecovered ==
  pc = "store" =>
    \A i \in DOMAIN lines, a, b \in DOMAIN located_headers :
      LET n == lines[i].num
          m == Len(n)
          Sibling(h) == Len(h.num) = m /\ SubSeq(h.num, 1, m - 1) = SubSeq(n, 1, m - 1)
      IN  ( /\ n # NoNumber
            /\ Sibling(located_headers[a]) /\ located_headers[a].num[m] < n[m]
            /\ Sibling(located_headers[b]) /\ located_headers[b].num[m] > n[m]
            /\ located_headers[a].gid < lines[i].gid
            /\ lines[i].gid < located_headers[b].gid )
          => \E h \in DOMAIN located_headers : located_headers[h].num = n
C16_ParentChildSeparated ==
  [][ pc = "seq_enforce" =>
        \A p, c \in DOMAIN located_headers :
          ( /\ number_parent(located_headers[c].num) = located_headers[p].num
            /\ located_headers[c].level >= 2
            /\ located_headers[p].gid > located_headers[c].gid
            /\ \A k \in DOMAIN located_headers :
                 number_parent(located_headers[k].num) = located_headers[p].num
                   => located_headers[c].gid <= located_headers[k].gid
            /\ \A i \in DOMAIN lines :
                 lines[i].gid < located_headers[c].gid
                   => /\ ~SeqNumberMatch(lines[i], located_headers[p].num)
                      /\ lines[i].ttl # located_headers[p].ttl )
          => \A a, b \in DOMAIN located_headers' :
               ( /\ located_headers'[a].num = located_headers[p].num
                 /\ located_headers'[b].num = located_headers[c].num )
               => located_headers'[a].gid # located_headers'[b].gid ]_vars

\* C17: no header of a returned result is anchored on a line whose text the
\* noise detection classified as a running header/footer, whatever strategy
\* anchored it.
C17_NoRunningTextAnchored ==
  outcome = "returned" =>
    \A h \in DOMAIN located_headers : \A i \in DOMAIN lines :
      lines[i].gid = located_headers[h].gid
        => [num |-> lines[i].num, ttl |-> lines[i].ttl] # document.running

C19_NormalizeIdempotent ==
  [][ pc = "renormalize" => cleaned' = cleaned ]_vars

\* C20: once a generate call has failed with a retryable error on each of
\* its max_retries + 1 attempts, every call made before the cool-down has
\* elapsed raises LLMCircuitOpenError without reaching the transport, and the
\* first call made after it has elapsed goes to the transport (a call whose
\* response is already cached is answered from the cache and is not held
\* against the statement).
C20_CircuitOpensAndRecovers ==
  [][ ( /\ llm_service.phase = "idle"
        /\ llm_service'.toggle # llm_service.toggle
        /\ llm_service.exhausted_at >= 0 )
      => IF llm_service.now < llm_service.exhausted_at + cooldown_ticks
         THEN llm_service'.outcome = "LLMCircuitOpenError" /\ llm_service'.phase = "idle"
         ELSE llm_service'.phase = "attempt" \/ llm_service'.outcome = "cached" ]_vars

\* C21: a second call of get_headers_llm_full for a doc_hash whose first call
\* completed makes no chat call and returns a result of the same form as a
\* fresh call, an LLMFullHeadersResult, whose headers are those the first
\* call returned.
C21_SecondCallServedFromCache ==
  [][ ( /\ pc = "llm_full"
        /\ pc' = "llm_full_done"
        /\ first_headers[llm_result'.doc_hash].form # "none" )
      => /\ calls' = calls
         /\ llm_result'.form = "LLMFullHeadersResult"
         /\ llm_result'.headers = first_headers[llm_result'.doc_hash].headers ]_vars

\* C22: with after_anchor_only enabled, the alignment loop never anchors a
\* header at or before the cursor: the anchors committed by the strict
\* aligner's loop, and those committed by the vector locator's loop, are
\* strictly increasing in commit order.
C22_AnchorsAfterCursor ==
  [][ /\ pc = "strict" /\ HEADERS_STRICT_AFTER_ANCHOR_ONLY
        => LET R == StrictResolve(lines, llm_headers, 1, -1, <<>>)
           IN  \A i, j \in DOMAIN R : i < j => R[i].gid < R[j].gid
      /\ pc = "vector"
        => LET V == locate_headers_with_vectors(llm_headers, lines, excluded_pages(document))
           IN  \A i, j \in DOMAIN V : i < j => V[i].gid < V[j].gid ]_vars

\* C23: invariant repair always terminates: no input makes the repair loop
\* go on for ever between parent re-anchoring and child relocation, so every
\* run of the aligner gets past the loop (and returns).
C23_RepairTerminates == <>(pc = "best_done")

\* ---------------------------------------------------------------- claim C24
AnchorUnresolvedTypes ==
  { "anchor_unresolved", "anchor_unresolved_strict", "anchor_unresolved_top",
    "anchor_unresolved_child", "anchor_unresolved_best" }

\* The headers of the outline H that the list R of located headers lacks.
Unlocated(H, R) ==
  { k \in DOMAIN H : \A i \in DOMAIN R : R[i].num # H[k].num \/ R[i].ttl # H[k].ttl }

\* C24: when an aligner (the strict aligner, or the lexical locator made of
\* the sequential aligner and the legacy locator) finds no acceptable line
\* for a header, it raises nothing, the header is absent from its output, an
\* anchor_unresolved event naming the header is emitted, and the remaining
\* headers are aligned as if the header had not been in the outline.
C24_UnresolvedHeaderTraced ==
  [][ /\ (pc = "strict" /\ tracer) =>
           LET R == StrictResolve(lines, llm_headers, 1, -1, <<>>)
               kept == SelectSeq(llm_headers, LAMBDA h : \E i \in DOMAIN R : R[i].num = h.num /\ R[i].ttl = h.ttl)
           IN  /\ error' = error
               /\ StrictResolve(lines, kept, 1, -1, <<>>) = R
               /\ \A k \in Unlocated(llm_headers, R) :
                    \E e \in trace' : e.type \in AnchorUnresolvedTypes /\ e.num = llm_headers[k].num
      /\ (pc = "lexical" /\ tracer) =>
           /\ error' = error
           /\ \A k \in Unlocated(llm_headers, located_headers') :
                \E e \in trace' : e.type \in AnchorUnresolvedTypes /\ e.num = llm_headers[k].num ]_vars

\* ---------------------------------------------------------------- claim C25
\* C25: the gap filler inserts, for a missing number, the first line of the
\* span that starts with the number and keeps non-empty text once the
\* numbering is stripped; a line made of the number alone is never inserted.
C25_NumberOnlyLineNotInserted ==
  [][ GapFillInsert =>
        LET gaps == Gaps(located_headers)
            g == SetMin(Fillable(located_headers, sections, lines))
            chunk == sections[gaps[g].after_index]
            titled == { i \in DOMAIN lines :
                          /\ lines[i].gid >= chunk.start_global_idx
                          /\ lines[i].gid <= chunk.end_global_idx
                          /\ GapPatternMatch(lines[i], gaps[g].components)
                          /\ lines[i].ttl # NoTitle }
            inserted == { located_headers'[i].gid : i \in DOMAIN located_headers' }
                          \ { located_headers[i].gid : i \in DOMAIN located_headers }
        IN  /\ titled # {}
            /\ inserted = { lines[SetMin(titled)].gid } ]_vars

\* ---------------------------------------------------------------- claim C26
\* C26: with several runs on one embeddings cache, no reader loads an entry
\* that is not completely written, and a complete entry is never rewritten
\* or removed.
C26_CacheEntriesAtomicAppendOnly ==
  [][ /\ \A c \in Clients :
           embeddings_cache'.clients[c].loaded # embeddings_cache.clients[c].loaded
             => embeddings_cache'.clients[c].loaded # "partial"
      /\ \A t \in Texts :
           (embeddings_cache.files[t].exists /\ embeddings_cache.files[t].complete)
             => embeddings_cache'.files[t] = embeddings_cache.files[t] ]_vars

\* ---------------------------------------------------------------- claim C27
\* C27: once the sequence enforcement (gap filling included) has finished,
\* every header anchored on a line has exactly one section, which starts on
\* the header's line and ends on the line before the next header in
\* document order, or on the last line for the last header.
C27_SectionsMatchHeaders ==
  (pc = "store" /\ located_headers # <<>>) =>
    \A k \in DOMAIN located_headers :
      LET g == located_headers[k].gid
          later == { located_headers[j].gid : j \in DOMAIN located_headers } \cap
                   { lines[i].gid : i \in { n \in DOMAIN lines : lines[n].gid > g } }
          last == IF later = {} THEN lines[Len(lines)].gid
                  ELSE lines[IndexOfGid(lines, SetMin(later)) - 1].gid
          own == { i \in DOMAIN sections : sections[i].start_global_idx = g }
      IN  IndexOfGid(lines, g) # 0 =>
            /\ Cardinality(own) = 1
            /\ \A i \in own : sections[i].end_global_idx = last

\* ---------------------------------------------------------------- claim C28
\* C28: the degraded result of a failed oracle call (mode llm_full_error, no
\* headers) is not stored as a cache artifact, and no later request is
\* answered from the cache with it: the oracle is called again.
C28_OracleFailureNotCached ==
  [][ /\ pc = "store" => artifact'.mode # "llm_full_error"
      /\ (pc = "cache" /\ artifact # NoArtifact /\ artifact.mode = "llm_full_error")
           => pc' = "oracle" ]_vars

\* ---------------------------------------------------------------- claim C29
GapFilled == { e \in trace : e.type = "anchor_resolved" /\ e.method = "gap_fill" }

\* C29: the gap loop terminates: each iteration either ends the loop or
\* inserts exactly one header, on a line that no header occupied; the
\* insertions never outnumber the lines, and the loop is left in the end.
C29_GapLoopTerminates ==
  /\ [][ pc = "gapfill" =>
           \/ pc' = "store"
           \/ /\ pc' = "gapfill"
              /\ Len(located_headers') = Len(located_headers) + 1
              /\ \E g \in { lines[i].gid : i \in DOMAIN lines } :
                   /\ \A k \in DOMAIN located_headers : located_headers[k].gid # g
                   /\ { located_headers'[k].gid : k \in DOMAIN located_headers' }
                        = { located_headers[k].gid : k \in DOMAIN located_headers } \cup {g} ]_vars
  /\ [](Cardinality(GapFilled) <= Len(lines))
  /\ <>(pc = "store")

\* The loop is about to iterate once more after an insertion that left a
\* numbering gap open.
C29_Witness ==
  pc = "gapfill" /\ GapFilled # {} /\ Gaps(located_headers) # <<>>

\* ---------------------------------------------------------------- claim C30
\* C30: SimpleHeadersState never holds more than 6 documents, and a set that
\* drops an entry drops exactly one, the document used least recently, set
\* and successful get both counting as a use.
C30_LruBound ==
  /\ [](Len(simple_headers_state.store) <= max_entries)
  /\ [][ LET before == { simple_headers_state.store[i] : i \in DOMAIN simple_headers_state.store }
             after == { simple_headers_state'.store[i] : i \in DOMAIN simple_headers_state'.store }
         IN  (before \ after # {}) =>
               /\ Cardinality(before) = max_entries
               /\ before \ after = { simple_headers_state.recency[1] }
               /\ simple_headers_state'.evicted = simple_headers_state.recency[1] ]_vars

\* A set on a full store dropped a document while the one a get had found
\* at the front, and moved to the end, stays stored.
C30_Witness ==
  /\ simple_headers_state.evicted # 0
  /\ simple_headers_state.spared # 0
  /\ \E i \in DOMAIN simple_headers_state.store :
       simple_headers_state.store[i] = simple_headers_state.spared
  /\ Len(simple_headers_state.store) = max_entries

====
